---- MODULE Spec2Model ----
(***************************************************************************)
(* Model of the rollup world-state synchronizer of falafel                 *)
(* (src/falafel/src/world_state.ts): startup recovery, the block queue     *)
(* consumer, update-dbs with its tree and relational effects, the operator *)
(* calls resetPipeline / flushTxs / stop, and the process being killed and *)
(* started again.  An action runs from one await of the source to a later *)
(* one, so the operator calls interleave with handleBlock where the event  *)
(* loop lets them; awaits are merged into one action only where no other   *)
(* call reads or writes what lies between them.                            *)
(***************************************************************************)
EXTENDS Integers, Sequences, FiniteSets, TLC

(***************************************************************************)
(* Bounds of the model.                                                    *)
(***************************************************************************)
\* number of rollup blocks the chain publishes
MaxBlocks == 2
\* number of disturbances: the process being killed (or exiting) and started
\* again, and operator resetPipeline calls
MaxDisturbances == 2
\* largest txFee of the off-chain data of a third party's rollup
MaxFee == 3

(***************************************************************************)
(* Program constants.                                                      *)
(***************************************************************************)
\* RollupProofData.NUM_BRIDGE_CALLS_PER_BLOCK
K == 4
\* inner proofs per rollup (rollupSize) of the rollups in the catalogue
RollupSize == 2

None == "none"
\* the rollup our own pipeline builds, and the one a competitor publishes
OurVariants == {"a"}
TheirVariants == {"x"}
Variants == OurVariants \cup TheirVariants
VIdx(v) == IF v = "a" THEN 0 ELSE 1

Max(a, b) == IF a >= b THEN a ELSE b

(***************************************************************************)
(* The initialisation files of the chain id (InitHelpers): whether there   *)
(* is an account data file, the accounts read from it, and the three       *)
(* expected roots.  A root is a buffer [len, leaves]: of length 0, or of   *)
(* length 32 and standing for the tree with the given non-zero leaves.     *)
(***************************************************************************)
VARIABLES
  initFile,     \* the initialisation files the process is configured with
  theirRollup,  \* the rollup (inner proof kinds, bridge ids, off-chain data) a
                \* third party publishes as variant y
  key,          \* SDK, DexieDatabase: the records of the key table, by name
  keyOp         \* SDK: the last call on the key store and what it came to

\* the accounts of the account data file
AccountsOfFile ==
  << [aliasHash |-> 101, address |-> 102, nonce |-> 1,
      note1 |-> 103, note2 |-> 104, nullifier |-> 105],
     [aliasHash |-> 111, address |-> 112, nonce |-> 1,
      note1 |-> 113, note2 |-> 114, nullifier |-> 115] >>

\* a root of length 0, the root of a tree, and a root no tree of the model has
EmptyBuffer == [len |-> 0, leaves |-> {}]
rootBuffer(leaves) == [len |-> 32, leaves |-> leaves]
WrongRoot == rootBuffer({<<-1, -1>>})

\* InitHelpers.getAccountDataFile(chainId) returns undefined
NoInitFile ==
  [file |-> FALSE, accounts |-> << >>, initDataRoot |-> EmptyBuffer,
   initNullRoot |-> EmptyBuffer, initRootsRoot |-> EmptyBuffer]

\* the leaves the accounts acs occupy in the DATA tree
initDataLeaves(acs) ==
  {<<2 * (i - 1), acs[i].note1>> : i \in 1..Len(acs)}
    \cup {<<2 * (i - 1) + 1, acs[i].note2>> : i \in 1..Len(acs)}
initNullLeaves(acs) == {<<acs[i].nullifier, 1>> : i \in 1..Len(acs)}

\* the roots an init file states for its accounts: for each tree the right
\* one, a wrong one, or none
expectedRoots(acs, kinds) ==
  LET pick(kind, leaves) ==
        CASE kind = "right" -> rootBuffer(leaves)
          [] kind = "wrong" -> WrongRoot
          [] OTHER -> EmptyBuffer
  IN [initDataRoot |-> pick(kinds[1], initDataLeaves(acs)),
      initNullRoot |-> pick(kinds[2], initNullLeaves(acs)),
      initRootsRoot |-> pick(kinds[3], {<<0, initDataLeaves(acs)>>})]

RootKinds == {"right", "wrong", "empty"}
InitFiles ==
  {NoInitFile} \cup
  {[file |-> TRUE, accounts |-> acs,
    initDataRoot |-> expectedRoots(acs, kinds).initDataRoot,
    initNullRoot |-> expectedRoots(acs, kinds).initNullRoot,
    initRootsRoot |-> expectedRoots(acs, kinds).initRootsRoot] :
     acs \in {<< >>, AccountsOfFile}, kinds \in RootKinds \X RootKinds \X RootKinds}

\* the size of the DATA tree the chain starts from: the init files' accounts
\* when the files are consistent, nothing otherwise
initDataSize ==
  IF /\ initFile.file
     /\ initFile.initDataRoot = rootBuffer(initDataLeaves(initFile.accounts))
     /\ initFile.initNullRoot = rootBuffer(initNullLeaves(initFile.accounts))
     /\ initFile.initRootsRoot = rootBuffer({<<0, initDataLeaves(initFile.accounts)>>})
  THEN 2 * Len(initFile.accounts) ELSE 0

(***************************************************************************)
(* The rollup catalogue: RollupProofData and Block of rollup r, variant v. *)
(* Zero is the zero buffer; every other value is a distinct code.          *)
(***************************************************************************)
Code(r, v, i, k) == 1 + ((r * 2 + VIdx(v)) * RollupSize + i) * 2 + k

PaddingProof ==
  [proofId |-> "PADDING", txId |-> 0, noteCommitment1 |-> 0, noteCommitment2 |-> 0,
   nullifier1 |-> 0, nullifier2 |-> 0]

\* InnerProofData.isPadding
isPadding(p) == p.proofId = "PADDING"

\* variant a: a DEPOSIT followed by a DEFI_DEPOSIT; variant x: padding
\* followed by a DEFI_DEPOSIT, so that off-chain index and inner-proof index
\* differ;
\* variant y: the inner proofs of the kinds theirRollup gives (a DEPOSIT
\* has one nullifier, its second is zero)
innerProofData(r, v) ==
  IF v = "y"
  THEN [i \in 1..RollupSize |->
          IF theirRollup.proofIds[i] = "PADDING" THEN PaddingProof
          ELSE [proofId |-> theirRollup.proofIds[i], txId |-> Code(r, v, i - 1, 0),
                noteCommitment1 |-> Code(r, v, i - 1, 0),
                noteCommitment2 |-> Code(r, v, i - 1, 1),
                nullifier1 |-> Code(r, v, i - 1, 0),
                nullifier2 |-> IF theirRollup.proofIds[i] = "DEPOSIT" THEN 0
                               ELSE Code(r, v, i - 1, 1)]]
  ELSE IF v = "a"
  THEN << [proofId |-> "DEPOSIT", txId |-> Code(r, v, 0, 0),
           noteCommitment1 |-> Code(r, v, 0, 0), noteCommitment2 |-> Code(r, v, 0, 1),
           nullifier1 |-> Code(r, v, 0, 0), nullifier2 |-> 0],
          [proofId |-> "DEFI_DEPOSIT", txId |-> Code(r, v, 1, 0),
           noteCommitment1 |-> Code(r, v, 1, 0), noteCommitment2 |-> Code(r, v, 1, 1),
           nullifier1 |-> Code(r, v, 1, 0), nullifier2 |-> Code(r, v, 1, 1)] >>
  ELSE << PaddingProof,
          [proofId |-> "DEFI_DEPOSIT", txId |-> Code(r, v, 1, 0),
           noteCommitment1 |-> Code(r, v, 1, 0), noteCommitment2 |-> Code(r, v, 1, 1),
           nullifier1 |-> Code(r, v, 1, 0), nullifier2 |-> Code(r, v, 1, 1)] >>

\* the bridge ids of the rollup's K bridge-call slots (0: unused slot)
bridgeIds(r, v) ==
  IF v = "y" THEN theirRollup.bridgeIds
  ELSE IF v = "a" THEN <<7, 0, 0, 0>> ELSE <<7, 9, 0, 0>>

\* the interaction notes of earlier bridge calls this rollup adds to the
\* DEFI tree (0: the canonical zero note)
defiInteractionNotes(r, v) ==
  IF v \in {"a", "y"} THEN <<0, 0, 0, 0>> ELSE <<0, Code(r, v, 1, 0), 0, 0>>

\* one blob per non-padding inner proof: OffchainDefiDepositData for the
\* DEFI_DEPOSIT of variant a (on bridge 7, txFee 2) and of variant x (on
\* bridge 9, txFee 3), opaque otherwise; the
\* blobs of variant y are those theirRollup gives, tagged by their position
offchainTxData(r, v) ==
  IF v = "y"
  THEN [k \in 1..Len(theirRollup.offchainTxData) |->
          [bridgeId |-> theirRollup.offchainTxData[k].bridgeId, depositValue |-> 5,
           txFee |-> theirRollup.offchainTxData[k].txFee, tag |-> 100 * (r + 1) + k]]
  ELSE IF v = "a"
  THEN << [bridgeId |-> 0, depositValue |-> 0, txFee |-> 0, tag |-> Code(r, v, 0, 0)],
          [bridgeId |-> 7, depositValue |-> 5, txFee |-> 2, tag |-> Code(r, v, 1, 0)] >>
  ELSE << [bridgeId |-> 9, depositValue |-> 5, txFee |-> 3, tag |-> Code(r, v, 1, 0)] >>

\* Block.interactionResult: the DefiInteractionNotes of this block's calls
interactionResult(r, v) ==
  IF v \in {"a", "y"} THEN << >>
  ELSE << [bridgeId |-> 9, nonce |-> r * K + 1, totalOutputValueA |-> 2] >>

\* a rollup of padding only
NoRollup ==
  [proofIds |-> [i \in 1..RollupSize |-> "PADDING"], bridgeIds |-> <<0, 0, 0, 0>>,
   offchainTxData |-> << >>]

\* the rollups a third party can publish: any kinds of inner proofs, with
\* one off-chain blob per non-padding inner proof, each naming a bridge of
\* the rollup (7, 9) or another one (4) and a txFee
ProofIds == {"PADDING", "DEPOSIT", "DEFI_DEPOSIT", "DEFI_CLAIM"}
Blobs == [bridgeId : {7, 9, 4}, txFee : 0..MaxFee]
TheirRollups ==
  {[proofIds |-> g[1], bridgeIds |-> <<7, 9, 0, 0>>, offchainTxData |-> g[2]] :
     g \in {h \in [1..RollupSize -> ProofIds]
                   \X UNION {[1..n -> Blobs] : n \in 0..RollupSize} :
               Len(h[2]) = Cardinality({i \in 1..RollupSize : h[1][i] # "PADDING"})}}

rollupHash(r, v) == <<r, v>>
dataStartIndex(r) == initDataSize + r * 2 * RollupSize

\* RollupProofData.getTotalDeposited / getTotalDefiDeposit for asset 0
getTotalDeposited(r, v) == IF v = "a" THEN 1 ELSE 0
getTotalDefiDeposit(r, v) == IF v \in {"a", "x"} THEN 5 ELSE 0

(***************************************************************************)
(* The tree store: four trees, staged over committed.  A tree is the set   *)
(* of its non-zero leaves <<index, value>>; its root is a function of      *)
(* exactly that set, so the set stands for the root.  Only the DATA tree's *)
(* size is read by the synchronizer.                                       *)
(***************************************************************************)
EmptyTrees == [data |-> {}, size |-> 0, null |-> {}, root |-> {}, defi |-> {}]

\* WorldStateDb.put on one tree: a leaf set with index idx set to value val
PutLeaf(leaves, idx, val) ==
  {l \in leaves : l[1] # idx} \cup (IF val = 0 THEN {} ELSE {<<idx, val>>})

putData(t, idx, val) ==
  [t EXCEPT !.data = PutLeaf(t.data, idx, val), !.size = Max(t.size, idx + 1)]
putNull(t, idx, val) == [t EXCEPT !.null = PutLeaf(t.null, idx, val)]
\* a ROOT leaf holds a DATA root, which is never the zero leaf
putRoot(t, idx, val) ==
  [t EXCEPT !.root = {l \in t.root : l[1] # idx} \cup {<<idx, val>>}]
putDefi(t, idx, val) == [t EXCEPT !.defi = PutLeaf(t.defi, idx, val)]

\* the calls of the tree store: put(tree, index, value), commit(), rollback()
Put(tree, idx, val) == [op |-> "put", tree |-> tree, index |-> idx, value |-> val]
Commit == [op |-> "commit", tree |-> "ALL", index |-> 0, value |-> 0]
Rollback == [op |-> "rollback", tree |-> "ALL", index |-> 0, value |-> 0]

\* WorldStateDb.put
applyPut(t, p) ==
  IF p.tree = "DATA" THEN putData(t, p.index, p.value)
  ELSE IF p.tree = "NULL" THEN putNull(t, p.index, p.value)
  ELSE IF p.tree = "ROOT" THEN putRoot(t, p.index, p.value)
  ELSE putDefi(t, p.index, p.value)

\* the puts of the sequence ps, one after the other
RECURSIVE applyPuts(_, _)
applyPuts(t, ps) ==
  IF ps = << >> THEN t ELSE applyPuts(applyPut(t, Head(ps)), Tail(ps))

\* WorldStateDb.getRoot of the four trees
getRoots(t) == [data |-> t.data, null |-> t.null, root |-> t.root, defi |-> t.defi]

(***************************************************************************)
(* InitHelpers: the accounts of the file go into the trees.                *)
(***************************************************************************)
\* populateDataAndRootsTrees, the DATA puts of accounts i .. Len(acs)
RECURSIVE putAccountNotes(_, _, _)
putAccountNotes(t, acs, i) ==
  IF i > Len(acs) THEN t
  ELSE putAccountNotes(putData(putData(t, 2 * (i - 1), acs[i].note1),
                               2 * (i - 1) + 1, acs[i].note2),
                       acs, i + 1)

\* populateDataAndRootsTrees: the account notes, then the DATA root at
\* index 0 of the ROOT tree
populateDataAndRootsTrees(acs, t) ==
  LET t1 == putAccountNotes(t, acs, 1) IN putRoot(t1, 0, t1.data)

\* populateNullifierTree, the NULL puts of accounts i .. Len(acs)
RECURSIVE populateNullifierTree(_, _, _)
populateNullifierTree(acs, t, i) ==
  IF i > Len(acs) THEN t
  ELSE populateNullifierTree(acs, putNull(t, acs[i].nullifier, 1), i + 1)

\* lines 130-136: both calls, on the trees t
populateTrees(acs, t) == populateNullifierTree(acs, populateDataAndRootsTrees(acs, t), 1)

\* the trees the chain starts from
GenesisTrees ==
  IF initDataSize > 0 THEN populateTrees(initFile.accounts, EmptyTrees) ELSE EmptyTrees

(***************************************************************************)
(* The rollup circuit: the trees a rollup leaves when it is applied on top *)
(* of trees t, which is what the roots it publishes commit to, and what    *)
(* our own pipeline stages for the rollup it builds.                       *)
(***************************************************************************)
RollupEffect(t, r, v) ==
  LET ps == innerProofData(r, v)
      ns == defiInteractionNotes(r, v)
      d0 == dataStartIndex(r)
      newData == {l \in t.data : l[1] < d0 \/ l[1] >= d0 + 2 * RollupSize}
                 \cup {<<d0 + 2 * (i - 1), ps[i].noteCommitment1>> :
                          i \in {j \in 1..RollupSize : ps[j].noteCommitment1 # 0}}
                 \cup {<<d0 + 2 * (i - 1) + 1, ps[i].noteCommitment2>> :
                          i \in {j \in 1..RollupSize : ps[j].noteCommitment2 # 0}}
  IN [data |-> newData,
      size |-> Max(t.size, d0 + 2 * RollupSize),
      null |-> t.null
               \cup {<<ps[i].nullifier1, 1>> : i \in {j \in 1..RollupSize : ps[j].nullifier1 # 0}}
               \cup {<<ps[i].nullifier2, 1>> : i \in {j \in 1..RollupSize : ps[j].nullifier2 # 0}},
      root |-> {l \in t.root : l[1] # r + 1} \cup {<<r + 1, newData>>},
      defi |-> {l \in t.defi : l[1] < r * K \/ l[1] >= (r + 1) * K}
               \cup {<<r * K + (i - 1), ns[i]>> : i \in {j \in 1..K : ns[j] # 0}}]

\* the trees of the chain after the rollups ch[1] .. ch[n]
RECURSIVE ChainTrees(_, _)
ChainTrees(ch, n) ==
  IF n = 0 THEN GenesisTrees ELSE RollupEffect(ChainTrees(ch, n - 1), n - 1, ch[n])

\* newDataRoot, newNullRoot, newDataRootsRoot, newDefiRoot of block r of chain ch
newRoots(ch, r) == getRoots(ChainTrees(ch, r + 1))

(***************************************************************************)
(* addRollupToWorldState, in the order of its puts.                        *)
(***************************************************************************)
\* toBufferBE(1n, 32): the value of a NULL leaf
NullifierSet == 1

\* the puts with a NULL put for every nullifier of a non-padding inner
\* proof, zero or not
RECURSIVE innerProofPutsAnyNullifier(_, _, _)
innerProofPutsAnyNullifier(r, v, i) ==
  IF i > RollupSize THEN << >>
  ELSE LET tx == innerProofData(r, v)[i]
           d0 == dataStartIndex(r)
       IN << Put("DATA", d0 + (i - 1) * 2, tx.noteCommitment1),
             Put("DATA", d0 + (i - 1) * 2 + 1, tx.noteCommitment2) >>
          \o (IF ~isPadding(tx)
              THEN << Put("NULL", tx.nullifier1, NullifierSet),
                      Put("NULL", tx.nullifier2, NullifierSet) >>
              ELSE << >>)
          \o innerProofPutsAnyNullifier(r, v, i + 1)

\* the puts of the non-padding inner proofs only
RECURSIVE innerProofPutsSkipPadding(_, _, _)
innerProofPutsSkipPadding(r, v, i) ==
  IF i > RollupSize THEN << >>
  ELSE LET tx == innerProofData(r, v)[i]
           d0 == dataStartIndex(r)
       IN (IF isPadding(tx) THEN << >>
           ELSE << Put("DATA", d0 + (i - 1) * 2, tx.noteCommitment1),
                   Put("DATA", d0 + (i - 1) * 2 + 1, tx.noteCommitment2) >>
                \o (IF tx.nullifier1 # 0
                    THEN << Put("NULL", tx.nullifier1, NullifierSet) >> ELSE << >>)
                \o (IF tx.nullifier2 # 0
                    THEN << Put("NULL", tx.nullifier2, NullifierSet) >> ELSE << >>))
          \o innerProofPutsSkipPadding(r, v, i + 1)

\* lines 436-450: the DATA and NULL puts of inner proofs i .. RollupSize, in
\* the order of the calls
RECURSIVE innerProofPuts(_, _, _)
innerProofPuts(r, v, i) ==
  IF i > RollupSize THEN << >>
  ELSE LET tx == innerProofData(r, v)[i]
           d0 == dataStartIndex(r)
       IN << Put("DATA", d0 + (i - 1) * 2, tx.noteCommitment1),
             Put("DATA", d0 + (i - 1) * 2 + 1, tx.noteCommitment2) >>
          \o (IF ~isPadding(tx) /\ tx.nullifier1 # 0
              THEN << Put("NULL", tx.nullifier1, NullifierSet) >> ELSE << >>)
          \o (IF ~isPadding(tx) /\ tx.nullifier2 # 0
              THEN << Put("NULL", tx.nullifier2, NullifierSet) >> ELSE << >>)
          \o innerProofPuts(r, v, i + 1)

putInnerProofs(t, r, v, i) == applyPuts(t, innerProofPuts(r, v, i))

\* line 457: note.equals(Buffer.alloc(0, 32)).  Buffer.alloc(size, fill)
\* with size AllocSize is a buffer of that many bytes, which an interaction
\* note (a buffer of the fixed width NoteWidth) equals only if it has its
\* length and is all fill bytes
AllocSize == 0
NoteWidth == 32
equalsAllocZero(note) == NoteWidth = AllocSize /\ note = 0

\* lines 454-461: the DEFI puts of slots i .. K, in the order of the calls
RECURSIVE defiPuts(_, _, _)
defiPuts(r, v, i) ==
  IF i > K THEN << >>
  ELSE LET note == defiInteractionNotes(r, v)[i]
           index == r * K + (i - 1)
       IN (IF equalsAllocZero(note) THEN << >> ELSE << Put("DEFI", index, note) >>)
          \o defiPuts(r, v, i + 1)

putDefiNotes(t, r, v, i) == applyPuts(t, defiPuts(r, v, i))

\* line 452: the ROOT put, of the DATA root of the trees t
rootPut(t, r) == Put("ROOT", r + 1, t.data)

\* line 452 followed by lines 454-461
rootAndDefiPuts(t, r, v) == << rootPut(t, r) >> \o defiPuts(r, v, 1)
putRootAndDefi(t, r, v) == applyPuts(t, rootAndDefiPuts(t, r, v))

\* one of the four roots is the block's
rootsMatchAny(ch, r, t) ==
  \E k \in {"data", "null", "root", "defi"} : newRoots(ch, r)[k] = getRoots(t)[k]

\* line 243-248: the block's four new roots against the current roots
rootsMatch(ch, r, t) == newRoots(ch, r) = getRoots(t)

(***************************************************************************)
(* The relational store.  A rollup row is [id, rollupProof, mined]; a tx   *)
(* row [id, rollupProof, mined, offchainTxData, nullifier1, nullifier2,    *)
(* txType]; a claim row [id, nullifier, bridgeId, interactionNonce, fee,   *)
(* claimed, interactionResultRollupId]; an asset metrics row [rollupId,    *)
(* totalDeposited, totalDefiDeposited] (of asset 0).                       *)
(***************************************************************************)
settled(rs) == {x \in rs : x.mined}
settledIds(rs) == {x.id : x \in settled(rs)}

RECURSIVE SetMax(_)
SetMax(S) ==
  IF S = {} THEN -1
  ELSE LET x == CHOOSE y \in S : TRUE IN Max(x, SetMax(S \ {x}))

getNextRollupId(rs) == SetMax(settledIds(rs)) + 1

deleteUnsettledRollups(rs) == settled(rs)

orphaned(rs, ps) == {h \in ps : ~\E x \in rs : x.rollupProof = h}
deleteOrphanedRollupProofs(rs, ps) == ps \ orphaned(rs, ps)
\* the txs of a deleted proof stay, detached from it
detachTxs(ts, gone) ==
  {IF t.rollupProof \in gone THEN [t EXCEPT !.rollupProof = <<-1, "none">>] ELSE t : t \in ts}

deletePendingTxs(ts) == {t \in ts : t.mined}

\* save: insert, or replace the row of the same primary key
upsert(rows, new) == {x \in rows : ~\E n \in new : n.id = x.id} \cup new

\* the latest asset metrics row of asset 0 (id: its rollupId), if any
NoMetrics == [id |-> -1, totalDeposited |-> 0, totalDefiDeposited |-> 0]
getAssetMetricsRow(ms) ==
  IF ms = {} THEN NoMetrics
  ELSE CHOOSE m \in ms : \A o \in ms : o.id <= m.id

\* stand-ins for an absent hash and an undefined column
NoHash == <<-1, "none">>
Undefined == -1

getRollup(rs, id) == {x \in rs : x.id = id}

\* a rollup row is settled by confirmMined only if it exists
confirmMinedRollups(rs, id, ethTxHash) ==
  {IF x.id = id THEN [x EXCEPT !.mined = TRUE, !.ethTxHash = ethTxHash] ELSE x : x \in rs}
confirmMinedTxs(ts, txIds) ==
  {IF t.id \in txIds THEN [t EXCEPT !.mined = TRUE] ELSE t : t \in ts}

\* addClaim: insert, or update the columns the new ClaimDao defines
addClaim(cl, c) ==
  IF \E o \in cl : o.id = c.id
  THEN {IF o.id = c.id
        THEN [c EXCEPT !.claimed = o.claimed,
                       !.interactionResultRollupId = o.interactionResultRollupId]
        ELSE o : o \in cl}
  ELSE cl \cup {c}
confirmClaimed(cl, nullifier) ==
  {IF o.nullifier = nullifier THEN [o EXCEPT !.claimed = TRUE] ELSE o : o \in cl}
updateClaimsWithResultRollupId(cl, nonce, rollupId) ==
  {IF o.interactionNonce = nonce THEN [o EXCEPT !.interactionResultRollupId = rollupId]
   ELSE o : o \in cl}

(***************************************************************************)
(* State.                                                                  *)
(***************************************************************************)
VARIABLES
  chain,            \* the variants of the blocks published on chain, by rollupId
  published,        \* hashes of the rollups our pipelines have broadcast
  wsCommitted,      \* worldStateDb: the committed trees (survive the process)
  wsStaged,         \* worldStateDb: committed plus staged writes (what reads see)
  wsStopped,        \* worldStateDb.stop() has been called
  rollups,          \* rollupDb: rollup rows
  rollupProofs,     \* rollupDb: rollup proof rows (their hashes)
  txs,              \* rollupDb: tx rows
  claims,           \* rollupDb: claim rows
  assetMetrics,     \* rollupDb: asset metrics rows
  accounts,         \* rollupDb: account rows
  startPc,          \* where start() is
  syncNext,         \* syncStateFromBlockchain: next block of the fetched list
  syncEnd,          \* syncStateFromBlockchain: end of the fetched list
  bcOn,             \* blockchain: started and not stopped
  bcNext,           \* blockchain: rollupId of the next block event
  blockQueue,       \* MemoryFifo items (rollupIds of the queued blocks)
  qCancelled,       \* MemoryFifo cancelled
  hbPc,             \* the queue consumer / handleBlock
  udPc,             \* where updateDbs is
  udBlock,          \* rollupId of the block updateDbs works on
  udFound,          \* confirmOrAddRollupToDb: getRollupProof found the hash
  udTxIds,          \* confirmOrAddRollupToDb: the ids of rollupProof.txs
  udMetrics,        \* confirmOrAddRollupToDb: the assetMetrics computed
  rpPc,             \* where resetPipeline is
  stopPc,           \* where stop() is
  pipeline,         \* this.pipeline: none, running, flushing (running, asked to
                    \* flush), staged (running, its rollup built), failed (its
                    \* start() has rejected), stopped
  stray,            \* running pipelines this.pipeline no longer refers to
  blockBufferCache, \* the block cache
  restarts,         \* process starts after the first
  resets,           \* resetPipeline calls
  killed,           \* history: the block whose updateDbs was in progress when
                    \* the process was last killed (NoKill: none was)
  enqueued,         \* history: the blocks put on the queue, in order
  begun,            \* history: the blocks handleBlock was called with, in order
  returned,         \* history: the handleBlock calls that returned or threw
  hbStaged,         \* history: the hash the pipeline had staged for the block of
                    \* the handleBlock call in progress, when the call began
  hbFound,          \* history: what this.pipeline was when the last handleBlock
                    \* call began
  rpSnap,           \* history: what the resetPipeline call in progress found
                    \* when it was called
  wsOps,            \* history: the tree-store calls of the updateDbs run in
                    \* progress (or of the last one), in order
  ret,              \* what the last call of getBlockBuffers, getNextPublishTime or
                    \* getTxPoolProfile returned to its caller
  replayOf,         \* the block updateDbs is run on a second time (ReplaySpec)
  replaySnap        \* trees and relational contents when that run began

treeVars == <<wsCommitted, wsStaged, wsStopped>>
dbVars == <<rollups, rollupProofs, txs, claims, assetMetrics>>
startVars == <<startPc, syncNext, syncEnd>>
chainVars == <<chain, published>>
bcVars == <<bcOn, bcNext>>
queueVars == <<blockQueue, qCancelled>>
udVars == <<udPc, udBlock, udFound, udTxIds, udMetrics>>
pipeVars == <<pipeline, stray>>
countVars == <<restarts, resets, killed>>
replayVars == <<replayOf, replaySnap>>
histVars == <<enqueued, begun, hbStaged, hbFound, rpSnap, replayVars, ret, wsOps>>
\* the key store of the SDK, which no step of the server touches
sdkVars == <<key, keyOp>>
envVars == <<initFile, theirRollup, sdkVars>>
initVars == <<envVars, accounts>>
vars == <<initVars, chainVars, treeVars, dbVars, startVars, bcVars, queueVars, hbPc, udVars,
          rpPc, stopPc, pipeVars, blockBufferCache, countVars, returned, histVars>>

\* what an updateDbs run leaves: the trees (with their sizes) and the
\* relational contents
snapshot ==
  [committed |-> wsCommitted, staged |-> wsStaged, rollups |-> rollups,
   rollupProofs |-> rollupProofs, txs |-> txs, claims |-> claims,
   assetMetrics |-> assetMetrics]
\* what a resetPipeline call finds: the settled rollups, the block cache, and
\* whether there are pending txs and an unsettled rollup
resetSnapshot ==
  [settled |-> settled(rollups), cache |-> blockBufferCache,
   inProgress |-> deletePendingTxs(txs) # txs /\ settled(rollups) # rollups]
NoReset == [settled |-> {}, cache |-> << >>, inProgress |-> FALSE]

\* no getter has been called.  A returned value is a sequence; shared tells
\* whether it is the very array this.blockBufferCache refers to
NoReturn == [op |-> "none", from |-> 0, value |-> << >>, shared |-> FALSE]

\* the array that shares its storage with seq
sliceShared(seq, from) ==
  [value |-> SubSeq(seq, from + 1, Len(seq)), shared |-> TRUE]

\* Array.prototype.slice(from), 0 <= from: a new array of the elements at
\* the indexes from and above (none when from is the length or more)
slice(seq, from) ==
  [value |-> SubSeq(seq, from + 1, Len(seq)), shared |-> FALSE]

\* Array.prototype.push on the array this.blockBufferCache refers to, as the
\* holder of a returned array sees it
pushSeen(r, x) ==
  IF r.shared THEN [r EXCEPT !.value = Append(r.value, x)] ELSE r

\* the process was not killed inside updateDbs
(***************************************************************************)
(* The key store of the SDK (DexieDatabase.addKey, getKey, deleteKey) over *)
(* the Dexie table key, whose primary key is the unique name.  A Buffer is *)
(* a view [ab, byteOffset, byteLength] of an ArrayBuffer ab.               *)
(***************************************************************************)
\* MAX_BYTE_LENGTH (100000000 in the code), scaled down
MAX_BYTE_LENGTH == 2
\* the longest ArrayBuffer a value is a view of
MaxBufLen == 4

\* a name is the sequence of the parts of its string
KeyNames == {<<"a">>, <<"b">>}
NoName == << >>
\* the ArrayBuffer of n bytes written with seed s
arrayBuffer(s, n) == [i \in 1..n |-> 10 * s + i]
\* every non-empty Buffer over such an ArrayBuffer
Buffers ==
  {[ab |-> arrayBuffer(s, n), byteOffset |-> o, byteLength |-> l] :
     s \in 1..2, n \in 1..MaxBufLen, o \in 0..(MaxBufLen - 1), l \in 1..MaxBufLen}
KeyValues == {v \in Buffers : v.byteOffset + v.byteLength <= Len(v.ab)}

\* the bytes of a Buffer
bytesOf(v) == SubSeq(v.ab, v.byteOffset + 1, v.byteOffset + v.byteLength)
\* ArrayBuffer.slice(begin, end): end is clamped to the length
abSlice(ab, begin, end) ==
  SubSeq(ab, begin + 1, IF end > Len(ab) THEN Len(ab) ELSE end)

\* line 102: the name of sub-key index of name (names hold no "__")
toSubKeyName(name, index) == name \o <<"__", index>>
\* Math.ceil(size / MAX_BYTE_LENGTH)
ceilDiv(size) == (size + MAX_BYTE_LENGTH - 1) \div MAX_BYTE_LENGTH

\* DexieKey.count left undefined
NoCount == 0
NoRecord == [name |-> NoName, value |-> << >>, size |-> 0, count |-> NoCount]
\* Table.get(name)
keyGet(t, name) ==
  IF \E k \in t : k.name = name THEN CHOOSE k \in t : k.name = name ELSE NoRecord
\* Table.where({ name }).delete()
keyDelete(t, name) == {k \in t : k.name # name}
\* Table.put(record): insert or replace by primary key
keyPut(t, rec) == keyDelete(t, rec.name) \cup {rec}

\* lines 719-729
RECURSIVE deleteSubKeys(_, _, _, _)
deleteSubKeys(t, name, i, count) ==
  IF i >= count THEN t
  ELSE deleteSubKeys(keyDelete(t, toSubKeyName(name, i)), name, i + 1, count)
deleteKeyOf(t, name) ==
  LET k == keyGet(t, name) IN
  IF k = NoRecord THEN t
  ELSE keyDelete(deleteSubKeys(t, name, 0, k.count), name)

\* line 740: value.buffer.slice(...), a slice of the ArrayBuffer under the view
subValue(value, i) == abSlice(value.ab, MAX_BYTE_LENGTH * i, MAX_BYTE_LENGTH * (i + 1))

\* lines 739-746: Table.add of the sub-keys from index i, then of the record
\* of the name; add rejects (ConstraintError) when the name is taken, and
\* the awaiting addKey rejects with what it has written so far
RECURSIVE addSubKeys(_, _, _, _, _)
addSubKeys(t, name, value, i, count) ==
  IF i >= count
  THEN IF keyGet(t, name) # NoRecord THEN [table |-> t, threw |-> TRUE]
       ELSE [table |-> t \cup {[name |-> name, value |-> << >>,
                                size |-> value.byteLength, count |-> count]},
             threw |-> FALSE]
  ELSE IF keyGet(t, toSubKeyName(name, i)) # NoRecord THEN [table |-> t, threw |-> TRUE]
       ELSE addSubKeys(t \cup {[name |-> toSubKeyName(name, i), value |-> subValue(value, i),
                                size |-> Len(subValue(value, i)), count |-> NoCount]},
                       name, value, i + 1, count)

\* lines 731-749
addKeyOf(t, name, value) ==
  LET size == value.byteLength IN
  IF size <= MAX_BYTE_LENGTH
  THEN [table |-> keyPut(t, [name |-> name, value |-> bytesOf(value), size |-> size,
                             count |-> NoCount]),
        threw |-> FALSE]
  ELSE addSubKeys(deleteKeyOf(t, name), name, value, 0, ceilDiv(size))

\* what getKey comes to: undefined, a RangeError, or a Buffer of bytes
KeyUndefined == [kind |-> "undefined", bytes |-> << >>]
KeyThrows == [kind |-> "throws", bytes |-> << >>]
KeyBytes(b) == [kind |-> "value", bytes |-> b]

\* lines 767-774: value.set(subKeys[i].value, prevSize) over Buffer.alloc(size)
\* (zero filled); set throws a RangeError when the source does not fit
RECURSIVE setSubKeys(_, _, _, _, _, _)
setSubKeys(t, name, value, i, count, prevSize) ==
  IF i >= count THEN KeyBytes(value)
  ELSE LET sub == keyGet(t, toSubKeyName(name, i)).value IN
       IF prevSize + Len(sub) > Len(value) THEN KeyThrows
       ELSE setSubKeys(t, name,
                       [j \in 1..Len(value) |->
                          IF j > prevSize /\ j <= prevSize + Len(sub)
                          THEN sub[j - prevSize] ELSE value[j]],
                       i + 1, count, prevSize + Len(sub))

\* lines 751-775
getKeyOf(t, name) ==
  LET k == keyGet(t, name) IN
  IF k = NoRecord \/ k.size = 0 THEN KeyUndefined
  ELSE IF k.count = NoCount THEN KeyBytes(k.value)
  ELSE IF \E i \in 0..(k.count - 1) : keyGet(t, toSubKeyName(name, i)) = NoRecord
       THEN KeyUndefined
  ELSE setSubKeys(t, name, [j \in 1..k.size |-> 0], 0, k.count, 0)

\* no call has been made on the key store
\* keyOp: the last addKey or deleteKey call (op, name, the bytes of the
\* value, whether it rejected), and the name and the outcome of the getKey
\* call made since
NoKeyOp == [op |-> "none", name |-> NoName, bytes |-> << >>, threw |-> FALSE,
            got |-> NoName, result |-> KeyUndefined]

NoKill == -1

NoSnapshot ==
  [committed |-> EmptyTrees, staged |-> EmptyTrees, rollups |-> {}, rollupProofs |-> {},
   txs |-> {}, claims |-> {}, assetMetrics |-> {}]

\* the state of a process that has just been launched: start() not yet run
Volatile ==
  /\ wsStopped = FALSE
  /\ startPc = "syncState" /\ syncNext = 0 /\ syncEnd = 0
  /\ bcOn = FALSE /\ bcNext = 0
  /\ blockQueue = << >> /\ qCancelled = FALSE
  /\ hbPc = "off"
  /\ udPc = "idle" /\ udBlock = 0 /\ udFound = FALSE /\ udTxIds = {}
  /\ udMetrics = NoMetrics
  /\ rpPc = "idle" /\ stopPc = "idle"
  /\ pipeline = None /\ stray = 0
  /\ blockBufferCache = << >>
  /\ enqueued = << >> /\ begun = << >> /\ returned = 0 /\ hbStaged = NoHash /\ hbFound = None
  /\ rpSnap = NoReset /\ wsOps = << >>

\* the stores and the chain are empty, the process has just been launched
InitStores ==
  /\ chain = << >> /\ published = {}
  /\ wsCommitted = EmptyTrees /\ wsStaged = EmptyTrees
  /\ rollups = {} /\ rollupProofs = {} /\ txs = {} /\ claims = {} /\ assetMetrics = {}
  /\ restarts = 0 /\ resets = 0 /\ killed = NoKill
  /\ accounts = {}
  /\ ret = NoReturn
  /\ replayOf = -1 /\ replaySnap = NoSnapshot
  /\ key = {} /\ keyOp = NoKeyOp
  /\ Volatile

\* a chain id without an account data file, and no third-party rollup
Init == initFile = NoInitFile /\ theirRollup = NoRollup /\ InitStores

RunningStates == {"running", "flushing", "staged"}
PipelineRunning == pipeline \in RunningStates \/ stray > 0

\* this.pipeline = <new pipeline>; this.pipeline.start()  (lines 213-214)
\* a pipeline still running when the reference is overwritten keeps running
assignNewPipeline ==
  /\ stray' = IF pipeline \in RunningStates THEN stray + 1 ELSE stray
  /\ pipeline' = "running"

\* await this.pipeline.stop(), at the call
stopPipeline ==
  /\ pipeline' = IF pipeline = None THEN None ELSE "stopped"
  /\ UNCHANGED stray

(***************************************************************************)
(* start()                                                                 *)
(***************************************************************************)
\* syncStateFromInitFiles without the check of lines 125-128
initFileHasAccounts ==
  /\ initFile.file
  /\ Len(initFile.accounts) # 0

\* lines 115-128: there is a file, it yields accounts, and none of the
\* three expected roots is empty
initFilesUsable ==
  /\ initFile.file
  /\ Len(initFile.accounts) # 0
  /\ initFile.initDataRoot.len # 0
  /\ initFile.initNullRoot.len # 0
  /\ initFile.initRootsRoot.len # 0

\* lines 140-142 alone: the expected data root equals the DATA root of t
initDataRootEqual(t) == initFile.initDataRoot = rootBuffer(t.data)

\* lines 140-148: the three expected roots equal the roots of the trees t
initRootsEqual(t) ==
  /\ initFile.initDataRoot = rootBuffer(t.data)
  /\ initFile.initRootsRoot = rootBuffer(t.root)
  /\ initFile.initNullRoot = rootBuffer(t.null)

\* lines 150-157
accountDaos(acs) ==
  {[aliasHash |-> acs[i].aliasHash, accountPubKey |-> acs[i].address,
    nonce |-> acs[i].nonce] : i \in 1..Len(acs)}

\* lines 65, 175-183: worldStateDb.start, getNextRollupId,
\* syncStateFromInitFiles (lines 110-159) when it is 0, and getBlocks; a root
\* that differs makes start() reject
syncState ==
  /\ startPc = "syncState"
  /\ IF getNextRollupId(rollups) = 0 /\ initFilesUsable
     THEN /\ wsStaged' = populateTrees(initFile.accounts, wsStaged)
          /\ IF initRootsEqual(wsStaged')
             THEN /\ accounts' = accounts \cup accountDaos(initFile.accounts)
                  /\ startPc' = "syncBlocks"
                  /\ syncNext' = getNextRollupId(rollups)
                  /\ syncEnd' = Len(chain)
             ELSE /\ startPc' = "failed"
                  /\ UNCHANGED <<accounts, syncNext, syncEnd>>
     ELSE /\ startPc' = "syncBlocks"
          /\ syncNext' = getNextRollupId(rollups)
          /\ syncEnd' = Len(chain)
          /\ UNCHANGED <<accounts, wsStaged>>
  /\ UNCHANGED <<envVars, chainVars, wsCommitted, wsStopped, dbVars, bcVars, queueVars,
                 hbPc, returned, udVars, rpPc, stopPc, pipeVars, blockBufferCache,
                 countVars, histVars>>

\* lines 165-167: the next block of the list goes to updateDbs, or the loop ends
syncStateFromBlockchain ==
  /\ startPc = "syncBlocks" /\ udPc = "idle"
  /\ IF syncNext < syncEnd
     THEN /\ udPc' = "roots" /\ udBlock' = syncNext /\ syncNext' = syncNext + 1
          /\ UNCHANGED <<startPc, syncEnd, udFound, udTxIds, udMetrics>>
     ELSE /\ startPc' = "deleteUnsettled"
          /\ UNCHANGED <<syncNext, syncEnd, udVars>>
  /\ UNCHANGED <<initVars, chainVars, treeVars, dbVars, bcVars, queueVars, hbPc, returned, rpPc,
                 stopPc, pipeVars, blockBufferCache, countVars, histVars>>

\* syncState without its deleteUnsettledRollups
syncStateSkipDeleteUnsettled ==
  /\ startPc = "deleteUnsettled"
  /\ startPc' = "deleteOrphaned"
  /\ UNCHANGED <<initVars, chainVars, treeVars, dbVars, syncNext, syncEnd, bcVars, queueVars, hbPc,
                 returned, udVars, rpPc, stopPc, pipeVars, blockBufferCache, countVars,
                 histVars>>

\* line 186
syncStateDeleteUnsettled ==
  /\ startPc = "deleteUnsettled"
  /\ rollups' = deleteUnsettledRollups(rollups)
  /\ startPc' = "deleteOrphaned"
  /\ UNCHANGED <<initVars, chainVars, treeVars, rollupProofs, txs, claims, assetMetrics, syncNext,
                 syncEnd, bcVars, queueVars, hbPc, returned, udVars, rpPc, stopPc, pipeVars,
                 blockBufferCache, countVars, histVars>>

\* line 187
syncStateDeleteOrphaned ==
  /\ startPc = "deleteOrphaned"
  /\ rollupProofs' = deleteOrphanedRollupProofs(rollups, rollupProofs)
  /\ txs' = detachTxs(txs, orphaned(rollups, rollupProofs))
  /\ startPc' = "cache"
  /\ UNCHANGED <<initVars, chainVars, treeVars, rollups, claims, assetMetrics, syncNext, syncEnd,
                 bcVars, queueVars, hbPc, returned, udVars, rpPc, stopPc, pipeVars,
                 blockBufferCache, countVars, histVars>>

(***************************************************************************)
(* The pure parts of updateDbs.                                            *)
(***************************************************************************)
\* bridgeIds.findIndex(bridge => bridge.equals(bridgeId.toBuffer()))
findIndex(seq, x) ==
  IF \E i \in 1..Len(seq) : seq[i] = x
  THEN (CHOOSE i \in 1..Len(seq) : seq[i] = x /\ \A j \in 1..(i - 1) : seq[j] # x) - 1
  ELSE -1

\* noteAlgo.claimNoteNullifier(noteAlgo.claimNoteCommitment(note))
claimNoteNullifier(interactionNonce, inputNullifier) ==
  1000 + interactionNonce * 100 + inputNullifier

\* x >> BigInt(n) on bigints: the floor of x / 2^n
shiftRight(x, n) == x \div (2 ^ n)

\* half of the txFee alone
halfFee(txFee) == shiftRight(txFee, 1)

\* line 278
claimFee(txFee) == txFee - shiftRight(txFee, 1)

\* the same ClaimDao stored under the index of its off-chain blob
claimDaoByOffChainIndex(r, v, i, offChainIndex) ==
  LET proofData == innerProofData(r, v)[i + 1]
      d == offchainTxData(r, v)[offChainIndex + 1]
      fee == claimFee(d.txFee)
      interactionNonce == findIndex(bridgeIds(r, v), d.bridgeId) + r * K
  IN [id |-> dataStartIndex(r) + offChainIndex * 2,
      nullifier |-> claimNoteNullifier(interactionNonce, proofData.nullifier1),
      bridgeId |-> d.bridgeId,
      depositValue |-> d.depositValue,
      inputNullifier |-> proofData.nullifier1,
      interactionNonce |-> interactionNonce,
      fee |-> fee,
      claimed |-> FALSE,
      interactionResultRollupId |-> Undefined]

\* lines 276-297: the ClaimDao of the DEFI_DEPOSIT at inner-proof index i
\* (from 0) whose off-chain data is offchainTxData[offChainIndex]
claimDao(r, v, i, offChainIndex) ==
  LET proofData == innerProofData(r, v)[i + 1]
      d == offchainTxData(r, v)[offChainIndex + 1]
      fee == claimFee(d.txFee)
      interactionNonce == findIndex(bridgeIds(r, v), d.bridgeId) + r * K
  IN [id |-> dataStartIndex(r) + i * 2,
      nullifier |-> claimNoteNullifier(interactionNonce, proofData.nullifier1),
      bridgeId |-> d.bridgeId,
      depositValue |-> d.depositValue,
      inputNullifier |-> proofData.nullifier1,
      interactionNonce |-> interactionNonce,
      fee |-> fee,
      claimed |-> FALSE,
      interactionResultRollupId |-> Undefined]

\* the walk over the inner proofs with offChainIndex counting the defi
\* proofs only
RECURSIVE walkInnerProofsCountDefi(_, _, _, _, _)
walkInnerProofsCountDefi(cl, r, v, i, offChainIndex) ==
  IF i >= RollupSize THEN cl
  ELSE LET proofData == innerProofData(r, v)[i + 1] IN
       IF proofData.proofId = "DEFI_DEPOSIT"
       THEN walkInnerProofsCountDefi(addClaim(cl, claimDao(r, v, i, offChainIndex)),
                                     r, v, i + 1, offChainIndex + 1)
       ELSE walkInnerProofsCountDefi(
              IF proofData.proofId = "DEFI_CLAIM"
              THEN confirmClaimed(cl, proofData.nullifier1) ELSE cl,
              r, v, i + 1, offChainIndex)

\* lines 268-306: the walk over the inner proofs from index i (from 0)
RECURSIVE walkInnerProofs(_, _, _, _, _)
walkInnerProofs(cl, r, v, i, offChainIndex) ==
  IF i >= RollupSize THEN cl
  ELSE LET proofData == innerProofData(r, v)[i + 1] IN
       IF isPadding(proofData) THEN walkInnerProofs(cl, r, v, i + 1, offChainIndex)
       ELSE walkInnerProofs(
              CASE proofData.proofId = "DEFI_DEPOSIT" ->
                     addClaim(cl, claimDao(r, v, i, offChainIndex))
                [] proofData.proofId = "DEFI_CLAIM" ->
                     confirmClaimed(cl, proofData.nullifier1)
                [] OTHER -> cl,
              r, v, i + 1, offChainIndex + 1)

\* lines 308-315: the interaction results from position i
RECURSIVE walkInteractionResults(_, _, _, _)
walkInteractionResults(cl, r, v, i) ==
  IF i > Len(interactionResult(r, v)) THEN cl
  ELSE walkInteractionResults(
         updateClaimsWithResultRollupId(cl, interactionResult(r, v)[i].nonce, r), r, v, i + 1)

\* the interaction results applied before the walk over the inner proofs
processDefiProofsResultsFirst(cl, r, v) ==
  walkInnerProofs(walkInteractionResults(cl, r, v, 1), r, v, 0, 0)

\* lines 265-316: the walk over the inner proofs, then the interaction
\* results of the block
processDefiProofs(cl, r, v) == walkInteractionResults(walkInnerProofs(cl, r, v, 0, 0), r, v, 1)

\* lines 387-411, for asset 0: the previous row with this rollup's id and
\* this rollup's totals added
getAssetMetrics(ms, r, v) ==
  LET previous == getAssetMetricsRow(ms)
  IN [id |-> r,
      totalDeposited |-> previous.totalDeposited + getTotalDeposited(r, v),
      totalDefiDeposited |-> previous.totalDefiDeposited + getTotalDefiDeposit(r, v)]

\* the non-padding inner proofs, in order (line 355)
nonPadding(r, v) == SelectSeq(innerProofData(r, v), LAMBDA p : ~isPadding(p))

\* lines 22-34, 354-356: the TxDao of the i-th non-padding inner proof
innerProofDataToTxDao(r, v, i, isMined) ==
  LET tx == nonPadding(r, v)[i]
  IN [id |-> tx.txId,
      rollupProof |-> rollupHash(r, v),
      mined |-> isMined,
      offchainTxData |-> offchainTxData(r, v)[i],
      nullifier1 |-> IF tx.nullifier1 # 0 THEN tx.nullifier1 ELSE Undefined,
      nullifier2 |-> IF tx.nullifier2 # 0 THEN tx.nullifier2 ELSE Undefined,
      txType |-> tx.proofId]

\* lines 354-356: the list of TxDaos
rollupTxList(r, v, isMined) ==
  [i \in 1..Len(nonPadding(r, v)) |-> innerProofDataToTxDao(r, v, i, isMined)]

rollupTxs(r, v, isMined) ==
  {rollupTxList(r, v, isMined)[i] : i \in 1..Len(nonPadding(r, v))}

\* lines 36-48: the block buffer of a rollup row, read with its proof's txs
rollupDaoToBlockBuffer(dao, ts) ==
  [rollupId |-> dao.id,
   ethTxHash |-> dao.ethTxHash,
   rollupProofData |-> dao.rollupProof,
   offchainTxData |-> {t.offchainTxData : t \in {u \in ts : u.rollupProof = dao.rollupProof}}]

\* getSettledRollups(0).map(rollupDaoToBlockBuffer): by ascending rollupId
RECURSIVE settledBlockBuffers(_, _)
settledBlockBuffers(rs, ts) ==
  IF settled(rs) = {} THEN << >>
  ELSE LET last == CHOOSE x \in settled(rs) : \A o \in settled(rs) : o.id <= x.id
       IN Append(settledBlockBuffers(rs \ {last}, ts), rollupDaoToBlockBuffer(last, ts))

\* lines 71-74: the cache is rebuilt from the settled rollups, the block
\* event is subscribed and the chain source started at getNextRollupId()
startBlockchain ==
  /\ startPc = "cache"
  /\ blockBufferCache' = settledBlockBuffers(rollups, txs)
  /\ ret' = [ret EXCEPT !.shared = FALSE]
  /\ bcOn' = TRUE
  /\ bcNext' = getNextRollupId(rollups)
  /\ startPc' = "process"
  /\ UNCHANGED <<initVars, chainVars, treeVars, dbVars, syncNext, syncEnd, queueVars, hbPc, returned,
                 udVars, rpPc, stopPc, pipeVars, countVars, enqueued, begun, hbStaged,
                 hbFound, rpSnap, replayVars, wsOps>>

\* line 76, and line 213 up to its await
startProcessQueue ==
  /\ startPc = "process"
  /\ hbPc' = "wait"
  /\ startPc' = "create"
  /\ UNCHANGED <<initVars, chainVars, treeVars, dbVars, syncNext, syncEnd, bcVars, queueVars, udVars,
                 rpPc, stopPc, pipeVars, blockBufferCache, countVars, returned, histVars>>

\* lines 213-214 after the await, and start() returns
startNewPipeline ==
  /\ startPc = "create"
  /\ assignNewPipeline
  /\ startPc' = "up"
  /\ UNCHANGED <<initVars, chainVars, treeVars, dbVars, syncNext, syncEnd, bcVars, queueVars, hbPc,
                 returned, udVars, rpPc, stopPc, blockBufferCache, countVars, histVars>>

(***************************************************************************)
(* updateDbs, one action per await.  It runs for start() while startPc is  *)
(* syncBlocks and for handleBlock otherwise.                               *)
(***************************************************************************)
udVariant == chain[udBlock + 1]

\* updateDbs goes on to its next await
udGoto(pc) == udPc' = pc /\ UNCHANGED <<startPc, hbPc, returned>>

\* updateDbs throws: start() rejects, or the queue handler rejects
udThrow ==
  /\ udPc' = "idle"
  /\ IF startPc = "syncBlocks"
     THEN startPc' = "failed" /\ UNCHANGED <<hbPc, returned>>
     ELSE hbPc' = "failed" /\ returned' = returned + 1 /\ UNCHANGED startPc

\* updateDbs returns: the sync loop goes on, or handleBlock calls
\* startNewPipeline (line 229, up to the await of line 213)
udReturn ==
  /\ udPc' = "idle"
  /\ IF startPc = "syncBlocks"
     THEN UNCHANGED <<startPc, hbPc, returned>>
     ELSE hbPc' = "create" /\ UNCHANGED <<startPc, returned>>

\* lines 243-254: commit when the four roots match, rollback otherwise
updateDbsRoots ==
  /\ udPc = "roots"
  /\ IF wsStopped
     THEN udThrow /\ UNCHANGED <<wsCommitted, wsStaged>>
     ELSE IF rootsMatch(chain, udBlock, wsStaged)
          THEN wsCommitted' = wsStaged /\ UNCHANGED wsStaged /\ udGoto("defi")
          ELSE wsStaged' = wsCommitted /\ UNCHANGED wsCommitted /\ udGoto("apply")
  /\ wsOps' = IF wsStopped THEN << >>
              ELSE IF rootsMatch(chain, udBlock, wsStaged) THEN << Commit >>
              ELSE << Rollback >>
  /\ UNCHANGED <<initVars, chainVars, wsStopped, dbVars, syncNext, syncEnd, bcVars, queueVars,
                 udBlock, udFound, udTxIds, udMetrics, rpPc, stopPc, pipeVars,
                 blockBufferCache, countVars, enqueued, begun, hbStaged, hbFound, rpSnap,
                 replayVars, ret>>

\* the same with a guard that also returns when the size is dataStartIndex
addRollupToWorldStateGuardGe ==
  /\ udPc = "apply"
  /\ IF wsStaged.size >= dataStartIndex(udBlock)
     THEN udGoto("defi") /\ UNCHANGED <<wsStaged, wsOps>>
     ELSE IF wsStopped
          THEN udThrow /\ UNCHANGED <<wsStaged, wsOps>>
          ELSE /\ wsStaged' = putInnerProofs(wsStaged, udBlock, udVariant, 1)
               /\ wsOps' = wsOps \o innerProofPuts(udBlock, udVariant, 1)
               /\ udGoto("rootdefi")
  /\ UNCHANGED <<initVars, chainVars, wsCommitted, wsStopped, dbVars, syncNext, syncEnd, bcVars,
                 queueVars, udBlock, udFound, udTxIds, udMetrics, rpPc, stopPc, pipeVars,
                 blockBufferCache, countVars, enqueued, begun, hbStaged, hbFound, rpSnap,
                 replayVars, ret>>

\* lines 429-450: the size guard, then the DATA and NULL puts
addRollupToWorldState ==
  /\ udPc = "apply"
  /\ IF wsStaged.size > dataStartIndex(udBlock)
     THEN udGoto("defi") /\ UNCHANGED <<wsStaged, wsOps>>
     ELSE IF wsStopped
          THEN udThrow /\ UNCHANGED <<wsStaged, wsOps>>
          ELSE /\ wsStaged' = putInnerProofs(wsStaged, udBlock, udVariant, 1)
               /\ wsOps' = wsOps \o innerProofPuts(udBlock, udVariant, 1)
               /\ udGoto("rootdefi")
  /\ UNCHANGED <<initVars, chainVars, wsCommitted, wsStopped, dbVars, syncNext, syncEnd, bcVars,
                 queueVars, udBlock, udFound, udTxIds, udMetrics, rpPc, stopPc, pipeVars,
                 blockBufferCache, countVars, enqueued, begun, hbStaged, hbFound, rpSnap,
                 replayVars, ret>>

\* lines 452-463: the ROOT put, the DEFI puts and the commit
addRollupToWorldStateCommit ==
  /\ udPc = "rootdefi"
  /\ IF wsStopped
     THEN udThrow /\ UNCHANGED <<wsStaged, wsCommitted, wsOps>>
     ELSE /\ wsStaged' = putRootAndDefi(wsStaged, udBlock, udVariant)
          /\ wsCommitted' = wsStaged'
          /\ wsOps' = wsOps \o rootAndDefiPuts(wsStaged, udBlock, udVariant) \o << Commit >>
          /\ udGoto("defi")
  /\ UNCHANGED <<initVars, chainVars, wsStopped, dbVars, syncNext, syncEnd, bcVars, queueVars,
                 udBlock, udFound, udTxIds, udMetrics, rpPc, stopPc, pipeVars,
                 blockBufferCache, countVars, enqueued, begun, hbStaged, hbFound, rpSnap,
                 replayVars, ret>>

\* the same with the rollup looked up by its rollupId
updateDbsProcessDefiProofsById ==
  /\ udPc = "defi"
  /\ claims' = processDefiProofs(claims, udBlock, udVariant)
  /\ udMetrics' = getAssetMetrics(assetMetrics, udBlock, udVariant)
  /\ udFound' = (getRollup(rollups, udBlock) # {})
  /\ udTxIds' = {t.id : t \in {u \in txs : u.rollupProof = rollupHash(udBlock, udVariant)}}
  /\ udGoto("write")
  /\ UNCHANGED <<initVars, chainVars, treeVars, rollups, rollupProofs, txs, assetMetrics, syncNext,
                 syncEnd, bcVars, queueVars, udBlock, rpPc, stopPc, pipeVars,
                 blockBufferCache, countVars, histVars>>

\* lines 257, 321-324: processDefiProofs, then getAssetMetrics and
\* getRollupProof by rollup hash
updateDbsProcessDefiProofs ==
  /\ udPc = "defi"
  /\ claims' = processDefiProofs(claims, udBlock, udVariant)
  /\ udMetrics' = getAssetMetrics(assetMetrics, udBlock, udVariant)
  /\ udFound' = (rollupHash(udBlock, udVariant) \in rollupProofs)
  /\ udTxIds' = {t.id : t \in {u \in txs : u.rollupProof = rollupHash(udBlock, udVariant)}}
  /\ udGoto("write")
  /\ UNCHANGED <<initVars, chainVars, treeVars, rollups, rollupProofs, txs, assetMetrics, syncNext,
                 syncEnd, bcVars, queueVars, udBlock, rpPc, stopPc, pipeVars,
                 blockBufferCache, countVars, histVars>>

\* lines 325-381: confirmMined for our rollup, addRollup for any other
confirmOrAddRollupToDb ==
  /\ udPc = "write"
  /\ LET r == udBlock
         v == udVariant
         h == rollupHash(r, v)
     IN IF udFound
        THEN /\ rollups' = confirmMinedRollups(rollups, r, h)
             /\ txs' = confirmMinedTxs(txs, udTxIds)
             /\ UNCHANGED rollupProofs
        ELSE /\ rollups' = upsert(rollups, {[id |-> r, rollupProof |-> h, mined |-> TRUE,
                                             ethTxHash |-> h]})
             /\ rollupProofs' = rollupProofs \cup {h}
             /\ txs' = upsert(txs, rollupTxs(r, v, TRUE))
  /\ assetMetrics' = upsert(assetMetrics, {udMetrics})
  /\ udGoto("push")
  /\ UNCHANGED <<initVars, chainVars, treeVars, claims, syncNext, syncEnd, bcVars, queueVars, udBlock,
                 udFound, udTxIds, udMetrics, rpPc, stopPc, pipeVars, blockBufferCache,
                 countVars, histVars>>

\* lines 383-384: getRollup, and the block buffer of the row is appended;
\* rollupDaoToBlockBuffer of no row throws
confirmOrAddRollupToDbPush ==
  /\ udPc = "push"
  /\ IF getRollup(rollups, udBlock) = {}
     THEN udThrow /\ UNCHANGED <<blockBufferCache, ret>>
     ELSE LET b == rollupDaoToBlockBuffer(CHOOSE x \in getRollup(rollups, udBlock) : TRUE,
                                          txs)
          IN /\ blockBufferCache' = Append(blockBufferCache, b)
             /\ ret' = pushSeen(ret, b)
             /\ udReturn
  /\ UNCHANGED <<initVars, chainVars, treeVars, dbVars, syncNext, syncEnd, bcVars, queueVars, udBlock,
                 udFound, udTxIds, udMetrics, rpPc, stopPc, pipeVars, countVars, enqueued,
                 begun, hbStaged, hbFound, rpSnap, replayVars, wsOps>>

(***************************************************************************)
(* The block queue and handleBlock.                                        *)
(***************************************************************************)
\* line 73: a block event of the chain source is put on the queue
\* (MemoryFifo.put drops it once the queue is cancelled)
blockEvent ==
  /\ bcOn /\ bcNext < Len(chain)
  /\ blockQueue' = IF qCancelled THEN blockQueue ELSE Append(blockQueue, bcNext)
  /\ bcNext' = bcNext + 1
  /\ enqueued' = IF qCancelled THEN enqueued ELSE Append(enqueued, bcNext)
  /\ UNCHANGED <<initVars, chainVars, treeVars, dbVars, startVars, bcOn, qCancelled, hbPc, returned,
                 udVars, rpPc, stopPc, pipeVars, blockBufferCache, countVars, begun,
                 hbStaged, hbFound, rpSnap, replayVars, ret, wsOps>>

\* the hash of the rollup the pipeline has built and staged for rollupId r
stagedHash(r) ==
  IF pipeline = "staged" /\ \E x \in rollups : x.id = r /\ ~x.mined
  THEN (CHOOSE x \in rollups : x.id = r /\ ~x.mined).rollupProof
  ELSE NoHash

\* handleBlock called with the newest block of the queue
handleBlockNewest ==
  /\ hbPc = "wait" /\ blockQueue # << >>
  /\ blockQueue' = SubSeq(blockQueue, 1, Len(blockQueue) - 1)
  /\ begun' = Append(begun, blockQueue[Len(blockQueue)])
  /\ hbStaged' = stagedHash(blockQueue[Len(blockQueue)]) /\ hbFound' = pipeline
  /\ IF pipeline = None
     THEN /\ hbPc' = "failed" /\ returned' = returned + 1
          /\ UNCHANGED <<udPc, udBlock, pipeVars>>
     ELSE /\ stopPipeline
          /\ hbPc' = "updateDbs"
          /\ udPc' = "roots"
          /\ udBlock' = blockQueue[Len(blockQueue)]
          /\ UNCHANGED returned
  /\ UNCHANGED <<initVars, chainVars, treeVars, dbVars, startVars, bcVars, qCancelled, udFound,
                 udTxIds, udMetrics, rpPc, stopPc, blockBufferCache, countVars, enqueued,
                 rpSnap, replayVars, ret, wsOps>>

\* lines 76, 226-228: the consumer takes the head of the queue and calls
\* handleBlock, which calls this.pipeline.stop() (a TypeError while
\* this.pipeline is unset) and then updateDbs
handleBlock ==
  /\ hbPc = "wait" /\ blockQueue # << >>
  /\ blockQueue' = Tail(blockQueue)
  /\ begun' = Append(begun, Head(blockQueue))
  /\ hbStaged' = stagedHash(Head(blockQueue)) /\ hbFound' = pipeline
  /\ IF pipeline = None
     THEN /\ hbPc' = "failed" /\ returned' = returned + 1
          /\ UNCHANGED <<udPc, udBlock, pipeVars>>
     ELSE /\ stopPipeline
          /\ hbPc' = "updateDbs"
          /\ udPc' = "roots"
          /\ udBlock' = Head(blockQueue)
          /\ UNCHANGED returned
  /\ UNCHANGED <<initVars, chainVars, treeVars, dbVars, startVars, bcVars, qCancelled, udFound,
                 udTxIds, udMetrics, rpPc, stopPc, blockBufferCache, countVars, enqueued,
                 rpSnap, replayVars, ret, wsOps>>

\* lines 229, 213-214: the new pipeline is assigned and started, handleBlock
\* returns and the consumer waits for the next block (or ends, if cancelled)
handleBlockStartNewPipeline ==
  /\ hbPc = "create"
  /\ assignNewPipeline
  /\ hbPc' = IF qCancelled THEN "exited" ELSE "wait"
  /\ returned' = returned + 1
  /\ hbStaged' = NoHash
  /\ UNCHANGED <<initVars, chainVars, treeVars, dbVars, startVars, bcVars, queueVars, udVars, rpPc,
                 stopPc, blockBufferCache, countVars, enqueued, begun, hbFound, rpSnap,
                 replayVars, ret, wsOps>>

(***************************************************************************)
(* resetPipeline, called by the operator once start() has returned.        *)
(***************************************************************************)
\* line 204
resetPipeline ==
  /\ startPc = "up" /\ stopPc = "idle" /\ rpPc = "idle" /\ restarts + resets < MaxDisturbances
  /\ resets' = resets + 1
  /\ stopPipeline
  /\ rpPc' = "rollback"
  /\ rpSnap' = resetSnapshot
  /\ UNCHANGED <<initVars, chainVars, treeVars, dbVars, startVars, bcVars, queueVars, hbPc, returned,
                 udVars, stopPc, blockBufferCache, restarts, killed, enqueued, begun,
                 hbStaged, hbFound, replayVars, ret, wsOps>>

\* line 205
resetPipelineRollback ==
  /\ rpPc = "rollback"
  /\ IF wsStopped
     THEN rpPc' = "idle" /\ UNCHANGED wsStaged
     ELSE rpPc' = "deleteUnsettled" /\ wsStaged' = wsCommitted
  /\ UNCHANGED <<initVars, chainVars, wsCommitted, wsStopped, dbVars, startVars, bcVars, queueVars,
                 hbPc, returned, udVars, stopPc, pipeVars, blockBufferCache, countVars,
                 histVars>>

\* line 206
resetPipelineDeleteUnsettled ==
  /\ rpPc = "deleteUnsettled"
  /\ rollups' = deleteUnsettledRollups(rollups)
  /\ rpPc' = "deleteOrphaned"
  /\ UNCHANGED <<initVars, chainVars, treeVars, rollupProofs, txs, claims, assetMetrics, startVars,
                 bcVars, queueVars, hbPc, returned, udVars, stopPc, pipeVars,
                 blockBufferCache, countVars, histVars>>

\* line 207
resetPipelineDeleteOrphaned ==
  /\ rpPc = "deleteOrphaned"
  /\ rollupProofs' = deleteOrphanedRollupProofs(rollups, rollupProofs)
  /\ txs' = detachTxs(txs, orphaned(rollups, rollupProofs))
  /\ rpPc' = "deletePending"
  /\ UNCHANGED <<initVars, chainVars, treeVars, rollups, claims, assetMetrics, startVars, bcVars,
                 queueVars, hbPc, returned, udVars, stopPc, pipeVars, blockBufferCache,
                 countVars, histVars>>

\* line 208, and line 213 up to its await
resetPipelineDeletePending ==
  /\ rpPc = "deletePending"
  /\ txs' = deletePendingTxs(txs)
  /\ rpPc' = "create"
  /\ UNCHANGED <<initVars, chainVars, treeVars, rollups, rollupProofs, claims, assetMetrics,
                 startVars, bcVars, queueVars, hbPc, returned, udVars, stopPc, pipeVars,
                 blockBufferCache, countVars, histVars>>

\* lines 209, 213-214 after the await
resetPipelineStartNewPipeline ==
  /\ rpPc = "create"
  /\ assignNewPipeline
  /\ rpPc' = "idle"
  /\ rpSnap' = NoReset
  /\ UNCHANGED <<initVars, chainVars, treeVars, dbVars, startVars, bcVars, queueVars, hbPc, returned,
                 udVars, stopPc, blockBufferCache, countVars, enqueued, begun, hbStaged, hbFound,
                 replayVars, ret, wsOps>>

(***************************************************************************)
(* stop() and flushTxs(), called once start() has returned.                *)
(***************************************************************************)
\* lines 100-102: cancel the queue (a waiting consumer ends), stop the chain
\* source, call this.pipeline.stop()
stop ==
  /\ startPc = "up" /\ stopPc = "idle" /\ rpPc = "idle"
  /\ blockQueue' = << >> /\ qCancelled' = TRUE
  /\ hbPc' = IF hbPc = "wait" THEN "exited" ELSE hbPc
  /\ bcOn' = FALSE
  /\ stopPipeline
  /\ stopPc' = "pipeline"
  /\ UNCHANGED <<initVars, chainVars, treeVars, dbVars, startVars, bcNext, udVars, rpPc,
                 blockBufferCache, countVars, returned, histVars>>

\* line 103, and stop() returns
stopWorldStateDb ==
  /\ stopPc = "pipeline"
  /\ wsStopped' = TRUE
  /\ stopPc' = "done"
  /\ UNCHANGED <<initVars, chainVars, wsCommitted, wsStaged, dbVars, startVars, bcVars, queueVars,
                 hbPc, returned, udVars, rpPc, pipeVars, blockBufferCache, countVars,
                 histVars>>

\* lines 106-108: the request is a flag of the pipeline it reaches; it
\* matters to a pipeline that has not built its rollup yet
flushTxs ==
  /\ startPc = "up" /\ stopPc = "idle" /\ rpPc = "idle"
  /\ pipeline = "running"
  /\ pipeline' = "flushing"
  /\ UNCHANGED <<initVars, chainVars, treeVars, dbVars, startVars, bcVars, queueVars, hbPc, returned,
                 udVars, rpPc, stopPc, stray, blockBufferCache, countVars, histVars>>

(***************************************************************************)
(* The environment: the pipeline, the chain, clients, and the process      *)
(* being killed and launched again.                                        *)
(***************************************************************************)
\* the running pipeline builds the next rollup: it stages the rollup's
\* leaves, records the proof, its txs and an unsettled rollup row, and
\* broadcasts it
pipelineCreateRollup ==
  /\ pipeline \in {"running", "flushing"} /\ ~wsStopped
  /\ getNextRollupId(rollups) < MaxBlocks
  /\ \E v \in OurVariants :
       LET r == getNextRollupId(rollups)
           h == rollupHash(r, v)
       IN /\ wsStaged' = RollupEffect(wsStaged, r, v)
          /\ rollupProofs' = rollupProofs \cup {h}
          /\ txs' = upsert(txs, rollupTxs(r, v, FALSE))
          /\ rollups' = upsert(rollups, {[id |-> r, rollupProof |-> h, mined |-> FALSE,
                                          ethTxHash |-> NoHash]})
          /\ published' = published \cup {h}
  /\ pipeline' = "staged"
  /\ UNCHANGED <<initVars, chain, wsCommitted, wsStopped, claims, assetMetrics, startVars, bcVars,
                 queueVars, hbPc, returned, udVars, rpPc, stopPc, stray, blockBufferCache,
                 countVars, histVars>>

\* the rejection of the pipeline's start() left without a handler: it takes
\* the queue consumer down with it
pipelinePanicUncaught ==
  /\ pipeline \in RunningStates
  /\ pipeline' = "failed"
  /\ hbPc' = "failed"
  /\ UNCHANGED <<initVars, chainVars, treeVars, dbVars, startVars, bcVars, queueVars,
                 returned, udVars, rpPc, stopPc, stray, blockBufferCache, countVars,
                 histVars>>

\* lines 214-217: the pipeline this.pipeline refers to fails, start() of the
\* pipeline rejects; the catch handler logs the error and nothing else
\* happens.  What the pipeline had staged and recorded stays.
pipelinePanic ==
  /\ pipeline \in RunningStates
  /\ pipeline' = "failed"
  /\ UNCHANGED <<initVars, chainVars, treeVars, dbVars, startVars, bcVars, queueVars, hbPc,
                 returned, udVars, rpPc, stopPc, stray, blockBufferCache, countVars,
                 histVars>>

\* the chain accepts the next rollup: a competitor's, or one of ours that
\* was broadcast
chainPublish ==
  /\ Len(chain) < MaxBlocks
  /\ \E v \in Variants :
       /\ v \in TheirVariants \/ rollupHash(Len(chain), v) \in published
       /\ chain' = Append(chain, v)
  /\ UNCHANGED <<initVars, published, treeVars, dbVars, startVars, bcVars, queueVars, hbPc, returned,
                 udVars, rpPc, stopPc, pipeVars, blockBufferCache, countVars, histVars>>

\* everything in the memory of a process is lost with it: staged tree
\* writes, the queue, the cache, the pipeline, every call in progress
processLaunched ==
  /\ wsStaged' = wsCommitted
  /\ wsStopped' = FALSE
  /\ startPc' = "syncState" /\ syncNext' = 0 /\ syncEnd' = 0
  /\ bcOn' = FALSE /\ bcNext' = 0
  /\ blockQueue' = << >> /\ qCancelled' = FALSE
  /\ hbPc' = "off"
  /\ udPc' = "idle" /\ udBlock' = 0 /\ udFound' = FALSE /\ udTxIds' = {}
  /\ udMetrics' = NoMetrics
  /\ rpPc' = "idle" /\ stopPc' = "idle"
  /\ pipeline' = None /\ stray' = 0
  /\ blockBufferCache' = << >>
  /\ enqueued' = << >> /\ begun' = << >> /\ returned' = 0 /\ hbStaged' = NoHash /\ hbFound' = None
  /\ rpSnap' = NoReset /\ wsOps' = << >>

\* the process is killed (or exits) at any point and is started again
killAndRestart ==
  /\ restarts + resets < MaxDisturbances
  /\ restarts' = restarts + 1
  /\ killed' = IF udPc = "idle" THEN NoKill ELSE udBlock
  /\ processLaunched
  /\ UNCHANGED <<initVars, chainVars, wsCommitted, dbVars, resets, replayVars, ret>>

\* the same, with the relational store erased while the trees survive
killEraseAndRestart ==
  /\ restarts + resets < MaxDisturbances
  /\ rollups # {}
  /\ restarts' = restarts + 1
  /\ killed' = NoKill
  /\ processLaunched
  /\ rollups' = {} /\ rollupProofs' = {} /\ txs' = {} /\ claims' = {} /\ assetMetrics' = {}
  /\ accounts' = {}
  /\ UNCHANGED <<envVars, chainVars, wsCommitted, resets, replayVars, ret>>

Next ==
  \/ syncState \/ syncStateFromBlockchain \/ syncStateDeleteUnsettled
  \/ syncStateDeleteOrphaned \/ startBlockchain \/ startProcessQueue
  \/ startNewPipeline
  \/ updateDbsRoots \/ addRollupToWorldState \/ addRollupToWorldStateCommit
  \/ updateDbsProcessDefiProofs \/ confirmOrAddRollupToDb \/ confirmOrAddRollupToDbPush
  \/ blockEvent \/ handleBlock \/ handleBlockStartNewPipeline
  \/ resetPipeline \/ resetPipelineRollback \/ resetPipelineDeleteUnsettled
  \/ resetPipelineDeleteOrphaned \/ resetPipelineDeletePending
  \/ resetPipelineStartNewPipeline
  \/ stop \/ stopWorldStateDb \/ flushTxs
  \/ pipelineCreateRollup \/ pipelinePanic \/ chainPublish
  \/ killAndRestart \/ killEraseAndRestart

Spec == Init /\ [][Next]_vars

(***************************************************************************)
(* updateDbs run a second time on the block it has just returned from, in  *)
(* a run without operator calls and without the process being killed.      *)
(***************************************************************************)
\* updateDbs is called again with the block of the call that has just
\* returned to syncStateFromBlockchain or to handleBlock
replayUpdateDbs ==
  /\ replayOf = -1 /\ udPc = "idle"
  /\ (startPc = "syncBlocks" /\ syncNext > 0) \/ hbPc = "create"
  /\ replayOf' = udBlock
  /\ replaySnap' = snapshot
  /\ udPc' = "roots"
  /\ hbPc' = IF hbPc = "create" THEN "updateDbs" ELSE hbPc
  /\ UNCHANGED <<initVars, chainVars, treeVars, dbVars, startVars, bcVars, queueVars, returned,
                 udBlock, udFound, udTxIds, udMetrics, rpPc, stopPc, pipeVars,
                 blockBufferCache, countVars, enqueued, begun, hbStaged, hbFound, rpSnap,
                 ret, wsOps>>

ReplayNext ==
  \/ syncState \/ syncStateFromBlockchain \/ syncStateDeleteUnsettled
  \/ syncStateDeleteOrphaned \/ startBlockchain \/ startProcessQueue
  \/ startNewPipeline
  \/ updateDbsRoots \/ addRollupToWorldState \/ addRollupToWorldStateCommit
  \/ updateDbsProcessDefiProofs \/ confirmOrAddRollupToDb \/ confirmOrAddRollupToDbPush
  \/ blockEvent \/ handleBlock \/ handleBlockStartNewPipeline
  \/ pipelineCreateRollup \/ chainPublish
  \/ replayUpdateDbs

ReplaySpec == Init /\ [][ReplayNext]_vars

(***************************************************************************)
(* start(), block handling and the process being killed and started again, *)
(* for every kind of initialisation files, without operator calls.         *)
(***************************************************************************)
InitFromFiles == initFile \in InitFiles /\ theirRollup = NoRollup /\ InitStores

InitFilesNext ==
  \/ syncState \/ syncStateFromBlockchain \/ syncStateDeleteUnsettled
  \/ syncStateDeleteOrphaned \/ startBlockchain \/ startProcessQueue
  \/ startNewPipeline
  \/ updateDbsRoots \/ addRollupToWorldState \/ addRollupToWorldStateCommit
  \/ updateDbsProcessDefiProofs \/ confirmOrAddRollupToDb \/ confirmOrAddRollupToDbPush
  \/ blockEvent \/ handleBlock \/ handleBlockStartNewPipeline
  \/ pipelineCreateRollup \/ chainPublish
  \/ killAndRestart

InitFilesSpec == InitFromFiles /\ [][InitFilesNext]_vars

(***************************************************************************)
(* start() and block handling on a chain of a third party's rollups, for   *)
(* every rollup of TheirRollups.                                           *)
(***************************************************************************)
InitTheirRollup == initFile = NoInitFile /\ theirRollup \in TheirRollups /\ InitStores

\* the chain accepts the third party's rollup as its next rollup
chainPublishTheirs ==
  /\ Len(chain) < MaxBlocks
  /\ chain' = Append(chain, "y")
  /\ UNCHANGED <<initVars, published, treeVars, dbVars, startVars, bcVars, queueVars, hbPc,
                 returned, udVars, rpPc, stopPc, pipeVars, blockBufferCache, countVars,
                 histVars>>

TheirRollupNext ==
  \/ syncState \/ syncStateFromBlockchain \/ syncStateDeleteUnsettled
  \/ syncStateDeleteOrphaned \/ startBlockchain \/ startProcessQueue
  \/ startNewPipeline
  \/ updateDbsRoots \/ addRollupToWorldState \/ addRollupToWorldStateCommit
  \/ updateDbsProcessDefiProofs \/ confirmOrAddRollupToDb \/ confirmOrAddRollupToDbPush
  \/ blockEvent \/ handleBlock \/ handleBlockStartNewPipeline
  \/ chainPublishTheirs

TheirRollupSpec == InitTheirRollup /\ [][TheirRollupNext]_vars

(***************************************************************************)
(* The getters, called by clients at any moment: between any two steps of  *)
(* start(), handleBlock and resetPipeline.                                 *)
(***************************************************************************)
\* the positions a client asks from
Froms == 0..MaxBlocks

\* lines 81-83
getBlockBuffers ==
  /\ \E from \in Froms :
       ret' = [op |-> "getBlockBuffers", from |-> from,
               value |-> slice(blockBufferCache, from).value,
               shared |-> slice(blockBufferCache, from).shared]
  /\ UNCHANGED <<initVars, chainVars, treeVars, dbVars, startVars, bcVars, queueVars, hbPc,
                 returned, udVars, rpPc, stopPc, pipeVars, blockBufferCache, countVars,
                 enqueued, begun, hbStaged, hbFound, rpSnap, replayVars, wsOps>>

\* lines 85-93: what the pipeline answers, or the default timeouts while
\* this.pipeline is unset
getNextPublishTime ==
  /\ ret' = [op |-> "getNextPublishTime", from |-> 0,
             value |-> IF pipeline # None THEN <<"pipeline">> ELSE <<"default">>,
             shared |-> FALSE]
  /\ UNCHANGED <<initVars, chainVars, treeVars, dbVars, startVars, bcVars, queueVars, hbPc,
                 returned, udVars, rpPc, stopPc, pipeVars, blockBufferCache, countVars,
                 enqueued, begun, hbStaged, hbFound, rpSnap, replayVars, wsOps>>

\* lines 95-97: what the pipeline answers, or a TypeError while
\* this.pipeline is unset
getTxPoolProfile ==
  /\ ret' = [op |-> "getTxPoolProfile", from |-> 0,
             value |-> IF pipeline # None THEN <<"pipeline">> ELSE <<"TypeError">>,
             shared |-> FALSE]
  /\ UNCHANGED <<initVars, chainVars, treeVars, dbVars, startVars, bcVars, queueVars, hbPc,
                 returned, udVars, rpPc, stopPc, pipeVars, blockBufferCache, countVars,
                 enqueued, begun, hbStaged, hbFound, rpSnap, replayVars, wsOps>>

GettersNext ==
  \/ syncState \/ syncStateFromBlockchain \/ syncStateDeleteUnsettled
  \/ syncStateDeleteOrphaned \/ startBlockchain \/ startProcessQueue
  \/ startNewPipeline
  \/ updateDbsRoots \/ addRollupToWorldState \/ addRollupToWorldStateCommit
  \/ updateDbsProcessDefiProofs \/ confirmOrAddRollupToDb \/ confirmOrAddRollupToDbPush
  \/ blockEvent \/ handleBlock \/ handleBlockStartNewPipeline
  \/ resetPipeline \/ resetPipelineRollback \/ resetPipelineDeleteUnsettled
  \/ resetPipelineDeleteOrphaned \/ resetPipelineDeletePending
  \/ resetPipelineStartNewPipeline
  \/ pipelineCreateRollup \/ chainPublish
  \/ getBlockBuffers \/ getNextPublishTime \/ getTxPoolProfile

GettersSpec == Init /\ [][GettersNext]_vars

(***************************************************************************)
(* The properties.                                                         *)
(***************************************************************************)
\* an updateDbs call returns (its last await is the getRollup of line 383)
updateDbsReturns ==
  /\ udPc = "push" /\ udPc' = "idle" /\ restarts' = restarts
  /\ getRollup(rollups, udBlock) # {}

\* start() returns
startReturns == startPc = "create" /\ startPc' = "up"

noUnsettled == rollups = settled(rollups)
noOrphans == orphaned(rollups, rollupProofs) = {}

\* C1: when updateDbs returns for the block of rollup r, whichever branch it
\* took, the committed roots of the four trees are the four new roots of r
C1_RootEquality ==
  [][updateDbsReturns => getRoots(wsCommitted') = newRoots(chain, udBlock)]_vars

\* C2: when start() returns with a settled rollup in the store, the
\* committed roots are the roots published by the settled rollup of the
\* highest rollupId, whatever the previous run left
C2_RootsAfterStart ==
  [][startReturns /\ settled(rollups') # {}
       => getRoots(wsCommitted') = newRoots(chain, getNextRollupId(rollups') - 1)]_vars

C4_CacheIsSettled ==
  startPc = "up" => blockBufferCache = settledBlockBuffers(rollups, txs)

\* C5: from the end of syncState to the end of start() the store holds no
\* unsettled rollup and no rollup proof without a rollup row, the proofs of
\* the unsettled rollups having become orphans by the first delete; and the
\* two deletes of resetPipeline leave no proof without a rollup row either
C5_NoUnsettledNoOrphans ==
  /\ [](startPc \in {"cache", "process", "create"} => noUnsettled /\ noOrphans)
  /\ [][rpPc = "deleteOrphaned" /\ rpPc' = "deletePending" => noOrphans']_vars
\* syncState has just finished in a process launched over a store in which
\* the pipeline of the run before had left a rollup, its proof and its txs
C5_Witness ==
  /\ startPc = "cache" /\ restarts = 1 /\ resets = 0
  /\ published # {} /\ rollupProofs = {} /\ rollups = {} /\ txs # {}

\* C6: the blocks handleBlock has been called with are, in order, the first
\* of the blocks enqueued, and a call begins only when every call before it
\* has returned
C6_OneAtATimeInOrder ==
  /\ Len(begun) <= Len(enqueued)
  /\ begun = SubSeq(enqueued, 1, Len(begun))
  /\ returned \in {Len(begun) - 1, Len(begun)}
  /\ hbPc \in {"updateDbs", "create"} <=> returned = Len(begun) - 1
\* a second block is on the queue while the handleBlock call of the first is
\* suspended at an await of updateDbs
C6_Witness ==
  /\ hbPc = "updateDbs" /\ udPc = "write"
  /\ begun = <<0>> /\ enqueued = <<0, 1>> /\ blockQueue = <<1>>

\* C7: no pipeline is running while updateDbs is executing
C7_NoPipelineDuringUpdateDbs == ~(udPc # "idle" /\ PipelineRunning)

\* C8: once stop() has returned, the queue is cancelled, the chain source
\* and the tree store are stopped, no updateDbs and no handleBlock is in
\* progress, and no pipeline is running
C8_QuietAfterStop ==
  stopPc = "done" =>
    /\ qCancelled /\ ~bcOn /\ wsStopped
    /\ udPc = "idle"
    /\ hbPc \notin {"updateDbs", "create"}
    /\ ~PipelineRunning

\* C9: when the pipeline had staged hash H1 for rollupId r and the block of
\* r has another hash H2, updateDbs drops the staged writes, and when it
\* returns r has one settled rollup, of proof H2 with the txs of the block's
\* inner proofs, the committed roots are those of H2, and no rollup row
\* refers to H1; startup and resetPipeline leave no proof without a rollup
C9_CompetingRollup ==
  [][/\ (udPc = "roots" /\ udPc' = "apply" => wsStaged' = wsCommitted)
     /\ (updateDbsReturns /\ hbStaged # NoHash /\ hbStaged # rollupHash(udBlock, udVariant)
           => /\ \E x \in rollups' :
                    /\ x.id = udBlock /\ x.mined
                    /\ x.rollupProof = rollupHash(udBlock, udVariant)
                    /\ \A y \in rollups' : y.id = udBlock => y = x
              /\ {t \in txs' : t.rollupProof = rollupHash(udBlock, udVariant)}
                   = rollupTxs(udBlock, udVariant, TRUE)
              /\ getRoots(wsCommitted') = newRoots(chain, udBlock)
              /\ ~\E x \in rollups' : x.rollupProof = hbStaged)
     /\ (startPc = "deleteOrphaned" /\ startPc' = "cache" => noOrphans')
     /\ (rpPc = "deleteOrphaned" /\ rpPc' = "deletePending" => noOrphans')]_vars

\* C10: an updateDbs run on the block of the run before it leaves the
\* trees, their sizes and the relational contents as that run left them
C10_IdempotentReplay ==
  [][replayOf = udBlock /\ updateDbsReturns => snapshot' = replaySnap]_vars

\* the asset metrics row of rollup r when every rollup of the chain up to r
\* has been counted once
RECURSIVE metricsOfChain(_, _)
metricsOfChain(ch, r) ==
  IF r < 0 THEN NoMetrics
  ELSE LET previous == metricsOfChain(ch, r - 1)
       IN [id |-> r,
           totalDeposited |-> previous.totalDeposited + getTotalDeposited(r, ch[r + 1]),
           totalDefiDeposited |-> previous.totalDefiDeposited
                                    + getTotalDefiDeposit(r, ch[r + 1])]

\* the trees and the relational store hold block r of the chain fully
\* applied: the trees those of the chain up to the last settled rollup, one
\* settled row of the block's proof with the block's txs, its claims and its
\* asset metrics
blockApplied(r, committed, rs, ts, cl, ms) ==
  LET v == chain[r + 1]
      n == getNextRollupId(rs)
  IN /\ n > r /\ n <= Len(chain)
     /\ committed = ChainTrees(chain, n)
     /\ {x \in rs : x.id = r}
          = {[id |-> r, rollupProof |-> rollupHash(r, v), mined |-> TRUE,
              ethTxHash |-> rollupHash(r, v)]}
     /\ {t \in ts : t.rollupProof = rollupHash(r, v)} = rollupTxs(r, v, TRUE)
     /\ processDefiProofs(cl, r, v) = cl
     /\ {m \in ms : m.id = r} = {metricsOfChain(chain, r)}

\* the trees and the relational store are as before block r was applied
blockNotApplied(r, committed, rs) ==
  /\ getNextRollupId(rs) = r
  /\ committed = ChainTrees(chain, r)

\* C11: when start() returns in a process launched after the process before
\* it was killed inside updateDbs of block r, the store holds no unsettled
\* rollup and no rollup proof without a rollup row, and the committed trees
\* and the store are those before block r or those with block r fully applied
C11_CrashRecovery ==
  [][startReturns /\ killed # NoKill
       => /\ noUnsettled' /\ noOrphans'
          /\ \/ blockApplied(killed, wsCommitted', rollups', txs', claims',
                             assetMetrics')
             \/ blockNotApplied(killed, wsCommitted', rollups')]_vars

\* resetPipeline returns (line 210)
resetPipelineReturns == rpPc = "create" /\ rpPc' = "idle" /\ restarts' = restarts

\* C12: when a resetPipeline that was called with pending txs and an
\* unsettled rollup in the store returns, a pipeline is running, the store
\* holds no pending tx, no unsettled rollup and no rollup proof without a
\* rollup row, the trees (roots and sizes) are the committed trees, and the
\* settled rollups and the block cache are those of the time of the call
C12_ResetPipeline ==
  [][resetPipelineReturns /\ rpSnap.inProgress
       => /\ pipeline' \in RunningStates
          /\ deletePendingTxs(txs') = txs'
          /\ noUnsettled' /\ noOrphans'
          /\ wsStaged' = wsCommitted'
          /\ settled(rollups') = rpSnap.settled
          /\ blockBufferCache' = rpSnap.cache]_vars

\* syncState gets to its end or throws (the process is not killed)
syncStateEnds == startPc = "syncState" /\ startPc' # "syncState"

\* what start() fetches, applies, subscribes to and starts after syncState
afterInitFiles ==
  <<syncNext, syncEnd, udVars, dbVars, bcVars, queueVars, hbPc, pipeVars, blockBufferCache>>

\* C13: syncState leaves the trees and the account rows alone when
\* getNextRollupId() is not 0; when it is 0 and the files are usable, the
\* account rows of the file are written and start() goes on if the data,
\* roots and null roots of the populated trees all equal the expected ones,
\* and otherwise start() fails with no account row written, no block
\* fetched or applied, the chain source not started, no queue consumer and
\* no pipeline; and nothing of this changes after start() has failed
C13_InitFromFiles ==
  [][/\ syncStateEnds =>
          /\ getNextRollupId(rollups) # 0
               => UNCHANGED <<wsStaged, accounts>> /\ startPc' = "syncBlocks"
          /\ getNextRollupId(rollups) = 0 /\ initFile.file /\ initFile.accounts # << >>
               /\ EmptyBuffer \notin {initFile.initDataRoot, initFile.initNullRoot,
                                      initFile.initRootsRoot}
               => IF /\ rootBuffer(wsStaged'.data) = initFile.initDataRoot
                     /\ rootBuffer(wsStaged'.root) = initFile.initRootsRoot
                     /\ rootBuffer(wsStaged'.null) = initFile.initNullRoot
                  THEN /\ accounts' = accounts \cup accountDaos(initFile.accounts)
                       /\ startPc' = "syncBlocks"
                  ELSE /\ accounts' = accounts /\ startPc' = "failed"
                       /\ syncNext' = 0 /\ syncEnd' = 0 /\ udPc' = "idle"
                       /\ ~bcOn' /\ hbPc' = "off" /\ blockBufferCache' = << >>
                       /\ pipeline' = None /\ stray' = 0
     /\ startPc = "failed" /\ restarts' = restarts
          => UNCHANGED <<startPc, accounts, afterInitFiles>>]_vars
\* start() has failed on a null root that differs, the data root being the
\* right one, with a block on the chain and no account row in the store
C13_Witness ==
  /\ startPc = "failed" /\ Len(chain) > 0 /\ accounts = {}
  /\ initFile.initNullRoot = WrongRoot
  /\ initFile.initDataRoot = rootBuffer(wsStaged.data)

\* C14: with no file, no account in the file, or an expected root of length
\* 0, syncState with getNextRollupId() = 0 changes no tree and no row of the
\* store and goes on to the blocks; and when start() then returns with
\* nothing on the chain, the four roots are those of the empty trees, the
\* block cache is empty and the pipeline is running
C14_NoInitFiles ==
  [][/\ syncStateEnds /\ getNextRollupId(rollups) = 0
          /\ \/ ~initFile.file
             \/ initFile.accounts = << >>
             \/ EmptyBuffer \in {initFile.initDataRoot, initFile.initNullRoot,
                                 initFile.initRootsRoot}
          => UNCHANGED <<treeVars, dbVars, accounts>> /\ startPc' = "syncBlocks"
     /\ startReturns /\ chain = << >>
          /\ \/ ~initFile.file
             \/ initFile.accounts = << >>
             \/ EmptyBuffer \in {initFile.initDataRoot, initFile.initNullRoot,
                                 initFile.initRootsRoot}
          => /\ getRoots(wsStaged') = getRoots(EmptyTrees)
             /\ getRoots(wsCommitted') = getRoots(EmptyTrees)
             /\ blockBufferCache' = << >>
             /\ pipeline' \in RunningStates]_vars
\* start() has returned on an empty chain with a file of accounts whose
\* expected roots root is empty and whose other roots are the right ones
C14_Witness ==
  /\ startPc = "up" /\ chain = << >> /\ pipeline = "running"
  /\ initFile.file /\ initFile.accounts # << >>
  /\ initFile.initRootsRoot = EmptyBuffer
  /\ initFile.initDataRoot = rootBuffer(initDataLeaves(initFile.accounts))
  /\ initFile.initNullRoot = rootBuffer(initNullLeaves(initFile.accounts))
  /\ wsStaged = EmptyTrees /\ accounts = {}

\* the inner-proof indexes (from 0) of the DEFI_DEPOSITs of block r
defiDepositsOf(r) ==
  {i \in 0..(RollupSize - 1) : innerProofData(r, chain[r + 1])[i + 1].proofId = "DEFI_DEPOSIT"}

\* the number of non-padding inner proofs of block r ahead of index i
nonPaddingBefore(r, i) ==
  Cardinality({j \in 0..(i - 1) : innerProofData(r, chain[r + 1])[j + 1].proofId # "PADDING"})

\* the off-chain blob of block r that belongs to the inner proof at index i
blobOf(r, i) == offchainTxData(r, chain[r + 1])[nonPaddingBefore(r, i) + 1]

\* the stored claims of the DEFI_DEPOSIT at index i of block r
claimsOf(r, i) == {c \in claims : c.id = dataStartIndex(r) + 2 * i}

\* C15: the interactionNonce of the stored claim of every DEFI_DEPOSIT of a
\* rollup r lies in r*K .. r*K + K - 1, and its offset from r*K is the first
\* position of the deposit's bridgeId among the K bridgeIds of the rollup
C15_InteractionNonce ==
  \A r \in 0..(Len(chain) - 1) : \A i \in defiDepositsOf(r) : \A c \in claimsOf(r, i) :
    /\ c.interactionNonce \in (r * K)..(r * K + K - 1)
    /\ bridgeIds(r, chain[r + 1])[c.interactionNonce - r * K + 1] = blobOf(r, i).bridgeId
    /\ \A p \in 1..(c.interactionNonce - r * K) :
         bridgeIds(r, chain[r + 1])[p] # blobOf(r, i).bridgeId

\* C16: the fee of the stored claim of every DEFI_DEPOSIT is the txFee of
\* its off-chain data less the half of it rounded down: with that half it
\* adds up to the txFee, it is not less than that half, and it is the txFee
\* halved and rounded up
C16_FeeSplit ==
  \A r \in 0..(Len(chain) - 1) : \A i \in defiDepositsOf(r) : \A c \in claimsOf(r, i) :
    LET txFee == blobOf(r, i).txFee
    IN \E half \in 0..txFee :
         /\ 2 * half <= txFee /\ txFee < 2 * half + 2
         /\ c.fee = txFee - half
         /\ c.fee + half = txFee
         /\ c.fee >= half
         /\ 2 * c.fee >= txFee /\ 2 * c.fee <= txFee + 1
\* the claim of a DEFI_DEPOSIT with an odd txFee is in the store, its fee
\* the larger half
C16_Witness ==
  \E r \in 0..(Len(chain) - 1) : \E i \in defiDepositsOf(r) : \E c \in claimsOf(r, i) :
    blobOf(r, i).txFee = 3 /\ c.fee = 2

\* C17: the claim stored for the DEFI_DEPOSIT at inner-proof index i has the
\* bridge and the off-chain data of the blob whose position is the number of
\* non-padding inner proofs ahead of i; and the TxDao list of a rollup that
\* is not ours has one tx per non-padding inner proof, in their order, each
\* with the blob of that position, which are the tx rows the settled rollup
\* has in the store
C17_OffchainIndex ==
  \A r \in 0..(Len(chain) - 1) :
    LET v == chain[r + 1]
        ps == innerProofData(r, v)
        real == {i \in 0..(RollupSize - 1) : ps[i + 1].proofId # "PADDING"}
        list == rollupTxList(r, v, TRUE)
    IN /\ \A i \in defiDepositsOf(r) : \A c \in claimsOf(r, i) :
            /\ c.bridgeId = blobOf(r, i).bridgeId
            /\ c.fee * 2 \in {blobOf(r, i).txFee, blobOf(r, i).txFee + 1}
       /\ Len(list) = Cardinality(real)
       /\ \A i \in real :
            /\ list[nonPaddingBefore(r, i) + 1].id = ps[i + 1].txId
            /\ list[nonPaddingBefore(r, i) + 1].offchainTxData = blobOf(r, i)
       /\ rollupHash(r, v) \notin published /\ r \in settledIds(rollups)
            => /\ Cardinality({t \in txs : t.rollupProof = rollupHash(r, v)})
                    = Cardinality(real)
               /\ \A i \in real : \E t \in txs :
                    /\ t.rollupProof = rollupHash(r, v)
                    /\ t.id = ps[i + 1].txId
                    /\ t.offchainTxData = blobOf(r, i)
\* a rollup of a DEPOSIT followed by a DEFI_DEPOSIT, their blobs differing
\* in bridge and txFee, is settled and the claim of the second is stored
C17_Witness ==
  /\ Len(chain) > 0 /\ chain[1] = "y" /\ 0 \in settledIds(rollups)
  /\ theirRollup.proofIds = <<"DEPOSIT", "DEFI_DEPOSIT">>
  /\ theirRollup.offchainTxData[1].bridgeId # theirRollup.offchainTxData[2].bridgeId
  /\ theirRollup.offchainTxData[1].txFee = 0 /\ theirRollup.offchainTxData[2].txFee = 3
  /\ claimsOf(0, 1) # {}

(***************************************************************************)
(* A pipeline that fails.                                                  *)
(***************************************************************************)
\* C18: when the running pipeline fails, nothing but the pipeline changes
\* (the consumer of the block queue, the queue and the stores are as they
\* were); the next handleBlock call stops the failed pipeline and begins
\* updateDbs on the head of the queue, and when updateDbs has returned a
\* new pipeline is started and the consumer goes on
C18_PipelineFailure ==
  [][/\ (pipeline \in RunningStates /\ pipeline' = "failed"
            => UNCHANGED <<initVars, chainVars, treeVars, dbVars, startVars, bcVars,
                           queueVars, hbPc, returned, udVars, rpPc, stopPc, stray,
                           blockBufferCache, countVars, histVars>>)
     /\ (pipeline = "failed" /\ begun' # begun /\ restarts' = restarts
            => /\ pipeline' = "stopped"
               /\ hbPc' = "updateDbs" /\ udPc' = "roots"
               /\ udBlock' = Head(blockQueue) /\ blockQueue' = Tail(blockQueue))
     /\ (hbPc = "create" /\ hbFound = "failed" /\ returned' = returned + 1
            => /\ pipeline' = "running"
               /\ hbPc' = IF qCancelled THEN "exited" ELSE "wait")]_vars

\* the handleBlock call that found a failed pipeline has returned: its block
\* is in the cache and a new pipeline is running
C18_Witness ==
  /\ hbFound = "failed" /\ hbPc = "wait" /\ pipeline = "running" /\ resets = 0
  /\ returned = Len(begun) /\ returned > 0
  /\ Len(blockBufferCache) = Len(chain)
(***************************************************************************)
(* A step of updateDbs that fails.                                         *)
(***************************************************************************)
\* updateDbs ends without having reached its last statement
updateDbsThrows ==
  /\ udPc # "idle" /\ udPc' = "idle" /\ restarts' = restarts
  /\ ~(udPc = "push" /\ getRollup(rollups, udBlock) # {})

\* the rows and the cache entry that updateDbs writes for the block of
\* rollup r: its claims, the claims it marks with its interaction results,
\* its settled rollup row, its block buffer
effectsOf(r, rs, cl, cache) ==
  [claims |-> {c \in cl : /\ c.id >= dataStartIndex(r)
                          /\ c.id < dataStartIndex(r) + 2 * RollupSize},
   results |-> {c \in cl : c.interactionResultRollupId = r},
   rollups |-> {x \in rs : x.id = r /\ x.mined},
   cache |-> {i \in 1..Len(cache) : cache[i].rollupId = r}]
NoEffects == [claims |-> {}, results |-> {}, rollups |-> {}, cache |-> {}]

\* C19: when a step of updateDbs fails, the caller fails with it (start()
\* rejects, or handleBlock throws and starts no pipeline), and the
\* relational store and the block cache hold nothing of that block: no
\* claim of it, no claim marked with its interaction results, no settled
\* rollup row, no cache entry
C19_AllOrNothing ==
  [][updateDbsThrows
       => /\ IF startPc = "syncBlocks" THEN startPc' = "failed" ELSE hbPc' = "failed"
          /\ effectsOf(udBlock, rollups', claims', blockBufferCache') = NoEffects]_vars
(***************************************************************************)
(* The getters.                                                            *)
(***************************************************************************)
\* the entries of seq at the positions n and above (positions from 0)
suffixFrom(seq, n) ==
  [i \in 1..Max(0, Len(seq) - n) |-> seq[n + i]]

\* C20: a call of getBlockBuffers, getNextPublishTime or getTxPoolProfile,
\* in whatever state of start(), handleBlock or resetPipeline it is made,
\* changes nothing but what its caller receives; getBlockBuffers(n), n a
\* position, returns the cache entries at the positions n and above in
\* order; and what a caller has received changes with no later step of the
\* program, an append to the cache included
C20_ReadOnlyGetters ==
  [][/\ (ret' # ret
            => /\ UNCHANGED <<initVars, chainVars, treeVars, dbVars, startVars, bcVars,
                              queueVars, hbPc, returned, udVars, rpPc, stopPc, pipeVars,
                              blockBufferCache, countVars, enqueued, begun, hbStaged,
                              hbFound, rpSnap, replayVars, wsOps>>
               /\ (ret'.op = "getBlockBuffers"
                     => ret'.value = suffixFrom(blockBufferCache, ret'.from)))
     /\ (blockBufferCache' # blockBufferCache => ret' = ret)]_vars

\* a caller holds the one entry that getBlockBuffers(0) returned, and the
\* cache has been appended to since
C20_Witness ==
  /\ ret.op = "getBlockBuffers" /\ ret.from = 0 /\ Len(ret.value) = 1
  /\ Len(blockBufferCache) = 2
(***************************************************************************)
(* updateDbs and the trees.                                                *)
(***************************************************************************)
\* the first await of updateDbs has completed (the tree store is running)
updateDbsBranches ==
  /\ udPc = "roots" /\ udPc' # "roots" /\ restarts' = restarts /\ ~wsStopped

\* C21: updateDbs takes its branch by the four new roots of the block
\* against the current roots, staged writes included: when all four are
\* equal it commits, the staged state becoming the committed one, and makes
\* no rollback and no put; otherwise it rolls back, the staged state
\* becoming the committed one of before the block, and every put of the run
\* comes after that rollback
C21_BranchByRoots ==
  [][/\ updateDbsBranches
          => LET n == newRoots(chain, udBlock) IN
             IF /\ n.data = wsStaged.data /\ n.null = wsStaged.null
                /\ n.root = wsStaged.root /\ n.defi = wsStaged.defi
             THEN /\ wsOps' = << Commit >> /\ udPc' = "defi"
                  /\ wsCommitted' = wsStaged /\ wsStaged' = wsStaged
             ELSE /\ wsOps' = << Rollback >> /\ udPc' = "apply"
                  /\ wsStaged' = wsCommitted /\ wsCommitted' = wsCommitted
     /\ (wsOps' # << >> /\ wsOps'[1] = Commit => Len(wsOps') = 1)
     /\ \A i \in 1..Len(wsOps') :
          wsOps'[i].op = "put" => wsOps'[1] = Rollback /\ i > 1]_vars

\* the block of a competitor is handled while our pipeline had staged its
\* own rollup for that rollupId: the rollback has dropped the staged writes
C21_Witness ==
  /\ udPc = "apply" /\ hbPc = "updateDbs" /\ hbStaged # NoHash
  /\ wsOps = << Rollback >> /\ wsStaged = wsCommitted /\ resets = 0
\* C22: from the first put of addRollupToWorldState for a block to its
\* commit, nothing else writes the tree store: no step of anything but
\* updateDbs changes the staged or the committed trees
C22_SingleTreeWriter ==
  [][udPc = "rootdefi" /\ udPc' = "rootdefi" /\ restarts' = restarts
       => wsStaged' = wsStaged /\ wsCommitted' = wsCommitted]_vars
(***************************************************************************)
(* addRollupToWorldState: the puts of a run that has gone past the size    *)
(* guard, as the tree store received them.                                 *)
(***************************************************************************)
\* the run of updateDbs in progress (or the last one, while the next has
\* not begun) has made its puts
hasPut == Len(wsOps) > 1 /\ udPc # "roots"

\* the inner proofs of the block of that run, and its dataStartIndex
udProofs == innerProofData(udBlock, chain[udBlock + 1])
udStart == dataStartIndex(udBlock)

isOn(tree, p) == p.op = "put" /\ p.tree = tree
isDataPut(p) == isOn("DATA", p)
isNullPut(p) == isOn("NULL", p)
isRootPut(p) == isOn("ROOT", p)
isDefiPut(p) == isOn("DEFI", p)

\* C23, as amended: addRollupToWorldState puts DATA leaves for every inner
\* proof, padding or not, in the order of the inner proofs: for the inner
\* proof at position i, noteCommitment1 at dataStartIndex + 2i and then
\* noteCommitment2 at dataStartIndex + 2i + 1
C23_DataPuts ==
  hasPut
    => SelectSeq(wsOps, isDataPut)
         = [k \in 1..(2 * RollupSize) |->
              Put("DATA", udStart + k - 1,
                  IF k % 2 = 1 THEN udProofs[(k + 1) \div 2].noteCommitment1
                  ELSE udProofs[k \div 2].noteCommitment2)]

\* C23, as claimed: the DATA puts are those of the non-padding inner proofs,
\* and a padding inner proof causes no DATA put
C23_DataPutsNonPaddingOnly ==
  hasPut
    => {<<wsOps[k].index, wsOps[k].value>> : k \in {j \in 1..Len(wsOps) : isDataPut(wsOps[j])}}
         = UNION {{<<udStart + 2 * (i - 1), udProofs[i].noteCommitment1>>,
                   <<udStart + 2 * (i - 1) + 1, udProofs[i].noteCommitment2>>} :
                    i \in {j \in 1..RollupSize : ~isPadding(udProofs[j])}}

\* the puts of a rollup of a padding inner proof followed by a real one
\* have been made
C23_Witness ==
  /\ hasPut /\ udPc = "rootdefi"
  /\ isPadding(udProofs[1]) /\ ~isPadding(udProofs[2])
\* the nullifiers of the inner proof at position i (from 1) of the block
nullifiersOf(i) == {udProofs[i].nullifier1, udProofs[i].nullifier2}

\* C24: the NULL puts of addRollupToWorldState are, one each, those of the
\* non-zero nullifiers of the non-padding inner proofs, at the index that is
\* the nullifier and with the value 1; and the tx rows of a rollup that was
\* not ours hold a nullifier where the inner proof's is non-zero and none
\* where it is zero
C24_NullifierPuts ==
  /\ hasPut
       => LET nullPuts == SelectSeq(wsOps, isNullPut)
              expected == {n \in UNION {nullifiersOf(i) :
                                          i \in {j \in 1..RollupSize : ~isPadding(udProofs[j])}} :
                             n # 0}
          IN /\ {nullPuts[k].index : k \in 1..Len(nullPuts)} = expected
             /\ Len(nullPuts) = Cardinality(expected)
             /\ \A k \in 1..Len(nullPuts) : nullPuts[k].value = 1
  /\ \A r \in 0..(Len(chain) - 1) :
       LET v == chain[r + 1]
           ps == innerProofData(r, v)
       IN rollupHash(r, v) \notin published /\ r \in settledIds(rollups)
            => \A i \in 1..RollupSize :
                 ~isPadding(ps[i])
                   => \E t \in txs :
                        /\ t.id = ps[i].txId /\ t.rollupProof = rollupHash(r, v)
                        /\ (ps[i].nullifier1 # 0 => t.nullifier1 = ps[i].nullifier1)
                        /\ (ps[i].nullifier1 = 0 => t.nullifier1 = Undefined)
                        /\ (ps[i].nullifier2 # 0 => t.nullifier2 = ps[i].nullifier2)
                        /\ (ps[i].nullifier2 = 0 => t.nullifier2 = Undefined)

\* a rollup of a padding inner proof and a DEPOSIT, whose second nullifier
\* is zero, has been applied to the trees and added to the store
C24_Witness ==
  /\ hasPut /\ udPc = "idle" /\ udBlock \in settledIds(rollups)
  /\ isPadding(udProofs[1]) /\ udProofs[2].proofId = "DEPOSIT"
  /\ udProofs[2].nullifier1 # 0 /\ udProofs[2].nullifier2 = 0
\* the number of calls of the sequence ops that satisfy Test
count(ops, Test(_)) == Len(SelectSeq(ops, Test))
isCommit(p) == p.op = "commit"

\* C25: when the DATA size is greater than the block's dataStartIndex,
\* addRollupToWorldState returns having made no put on any tree and no
\* commit, the trees being as it found them; when the size is dataStartIndex
\* or less it makes the puts of every inner proof, then the ROOT and DEFI
\* puts, and ends with a commit, the only one of the run
C25_SizeGuard ==
  [][/\ (udPc = "apply" /\ udPc' # "apply" /\ restarts' = restarts /\ ~wsStopped
          => IF wsStaged.size > dataStartIndex(udBlock)
             THEN /\ udPc' = "defi"
                  /\ wsOps' = wsOps /\ wsStaged' = wsStaged /\ wsCommitted' = wsCommitted
             ELSE /\ udPc' = "rootdefi"
                  /\ count(wsOps', isDataPut) = 2 * RollupSize
                  /\ count(wsOps', isCommit) = 0
                  /\ wsCommitted' = wsCommitted)
     /\ (udPc = "rootdefi" /\ udPc' # "rootdefi" /\ restarts' = restarts /\ ~wsStopped
          => /\ udPc' = "defi"
             /\ wsOps'[Len(wsOps')] = Commit
             /\ count(wsOps', isCommit) = 1
             /\ count(wsOps', isRootPut) = 1
             /\ wsCommitted' = wsStaged')]_vars

\* the relational store was erased and the trees kept: updateDbs of a block
\* the trees already hold has rolled back and gone past the guard without a
\* put or a commit
C25_Witness ==
  /\ udPc = "defi" /\ wsOps = << Rollback >> /\ restarts > 0
  /\ wsStaged.size > dataStartIndex(udBlock) /\ wsStaged = wsCommitted
\* the run of updateDbs has made its puts and its commit
hasApplied == hasPut /\ wsOps[Len(wsOps)] = Commit

\* the positions in wsOps of the calls that satisfy Test
positions(Test(_)) == {k \in 1..Len(wsOps) : Test(wsOps[k])}

\* the DATA leaves of the block of the run: its non-zero note commitments
udDataLeaves ==
  {l \in UNION {{<<udStart + 2 * (i - 1), udProofs[i].noteCommitment1>>,
                  <<udStart + 2 * (i - 1) + 1, udProofs[i].noteCommitment2>>} :
                   i \in 1..RollupSize} : l[2] # 0}

\* C26: addRollupToWorldState makes one ROOT put for the rollup, at index
\* rollupId + 1, after every DATA put of the rollup and before the commit,
\* and its value is the DATA root of a tree that holds the rollup's data
\* leaves
C26_RootPut ==
  hasApplied
    => /\ Cardinality(positions(isRootPut)) = 1
       /\ \A k \in positions(isRootPut) :
            /\ wsOps[k].index = udBlock + 1
            /\ \A d \in positions(isDataPut) : d < k
            /\ \A c \in positions(isCommit) : k < c
            /\ udDataLeaves \subseteq wsOps[k].value
\* the interaction notes of the block of the run
udNotes == defiInteractionNotes(udBlock, chain[udBlock + 1])

\* C27: the DEFI puts of addRollupToWorldState are those of the slots whose
\* interaction note is not the zero note, each at index rollupId * K + i
\* with the note of slot i as value; a slot that holds the zero note gets no
\* DEFI put
C27_DefiPuts ==
  hasApplied
    => /\ {<<wsOps[k].index, wsOps[k].value>> : k \in positions(isDefiPut)}
            = {<<udBlock * K + (i - 1), udNotes[i]>> : i \in {j \in 1..K : udNotes[j] # 0}}
       /\ Cardinality(positions(isDefiPut)) = Cardinality({j \in 1..K : udNotes[j] # 0})
(***************************************************************************)
(* The order of the writes of one run of updateDbs.                        *)
(***************************************************************************)
\* a step of the run of updateDbs in progress, the process staying up
udStep(from, to) == udPc = from /\ udPc' = to /\ restarts' = restarts

\* the awaits of updateDbs in the order of the code
udOrder ==
  {<<"roots", "defi">>, <<"roots", "apply">>, <<"apply", "rootdefi">>, <<"apply", "defi">>,
   <<"rootdefi", "defi">>, <<"defi", "write">>, <<"write", "push">>}

\* the claims of the DEFI_DEPOSITs of the block of the run that an
\* interaction result of the same block names by its nonce
udClaimsWithResult ==
  {c \in {claimDao(udBlock, udVariant, i, nonPaddingBefore(udBlock, i)) :
            i \in defiDepositsOf(udBlock)} :
     \E k \in 1..Len(interactionResult(udBlock, udVariant)) :
        interactionResult(udBlock, udVariant)[k].nonce = c.interactionNonce}

\* C28: one run of updateDbs writes in this order: the tree reconciliation
\* with its commit, then the addClaim and confirmClaimed calls of the walk,
\* then updateClaimsWithResultRollupId for each interaction result, then
\* confirmMined or addRollup, then the append to the cache. No relational
\* write of the run precedes its tree commit, and a claim that a
\* DEFI_DEPOSIT of the block adds is there when an interaction result of the
\* same block with its nonce is applied: it carries the rollupId as its
\* interactionResultRollupId once processDefiProofs is through
C28_WriteOrder ==
  [][/\ (udPc' # udPc /\ restarts' = restarts /\ udPc # "idle" /\ udPc' # "idle")
          => <<udPc, udPc'>> \in udOrder
     /\ (udPc \in {"roots", "apply", "rootdefi"} /\ udPc' # udPc /\ restarts' = restarts)
          => UNCHANGED <<dbVars, blockBufferCache>>
     /\ (wsOps' # wsOps /\ restarts' = restarts) => udPc \in {"roots", "apply", "rootdefi"}
     /\ udStep("defi", "write")
          => /\ UNCHANGED <<treeVars, wsOps, rollups, rollupProofs, txs, assetMetrics,
                            blockBufferCache>>
             /\ claims' = walkInteractionResults(
                             walkInnerProofs(claims, udBlock, udVariant, 0, 0),
                             udBlock, udVariant, 1)
             /\ \A c \in udClaimsWithResult :
                  \E o \in claims' : o.id = c.id /\ o.interactionNonce = c.interactionNonce
                                       /\ o.interactionResultRollupId = udBlock
     /\ udStep("write", "push")
          => UNCHANGED <<treeVars, wsOps, claims, blockBufferCache>>
     /\ udStep("push", "idle")
          => /\ UNCHANGED <<treeVars, wsOps, dbVars>>
             /\ (hbPc' # "failed" /\ startPc' # "failed"
                   => Len(blockBufferCache') = Len(blockBufferCache) + 1)]_vars

\* processDefiProofs is through for a block whose DEFI_DEPOSIT and
\* interaction result share a nonce: the claim carries the result
C28_Witness ==
  /\ udPc = "write" /\ udClaimsWithResult # {}
  /\ \A c \in udClaimsWithResult :
       \E o \in claims : o.id = c.id /\ o.interactionResultRollupId = udBlock
(***************************************************************************)
(* The leaf index of a claim.                                              *)
(***************************************************************************)
\* the stored claims of the DEFI_DEPOSIT at inner-proof index i of block r,
\* known by the input nullifier of the proof
claimsFor(r, i) ==
  {c \in claims : c.inputNullifier = innerProofData(r, chain[r + 1])[i + 1].nullifier1}

\* block r has been through processDefiProofs
defiProcessed(r) ==
  \/ \E x \in rollups : x.id = r /\ x.mined
  \/ r = udBlock /\ udPc \in {"write", "push"}

\* C29: the claim of the DEFI_DEPOSIT at position i among all inner proofs
\* of rollup r, padding counted, is stored under index dataStartIndex + 2i;
\* the claims of two DEFI_DEPOSITs of one rollup have different indices;
\* and the index is the one addRollupToWorldState puts the proof's first
\* note commitment at in the DATA tree
C29_ClaimIndex ==
  \A r \in 0..(Len(chain) - 1) : \A i \in defiDepositsOf(r) :
    LET p == innerProofData(r, chain[r + 1])[i + 1] IN
    /\ defiProcessed(r) => claimsFor(r, i) # {}
    /\ \A c \in claimsFor(r, i) :
         /\ c.id = dataStartIndex(r) + 2 * i
         /\ \A j \in defiDepositsOf(r) \ {i} : \A d \in claimsFor(r, j) : d.id # c.id
         /\ (r = udBlock /\ hasApplied)
              => \E k \in positions(isDataPut) :
                   wsOps[k].index = c.id /\ wsOps[k].value = p.noteCommitment1

\* a rollup of padding followed by a DEFI_DEPOSIT, and one of two
\* DEFI_DEPOSITs, have their claims in the store
C29_Witness ==
  \E r \in 0..(Len(chain) - 1) :
    /\ r = udBlock /\ hasApplied /\ udPc = "push"
    /\ \E i \in defiDepositsOf(r) :
         /\ i # nonPaddingBefore(r, i)
         /\ \E c \in claimsFor(r, i) : c.id = dataStartIndex(r) + 2 * i
(***************************************************************************)
(* confirmOrAddRollupToDb.                                                 *)
(***************************************************************************)
\* the rollup hash of the block of the run
udHash == rollupHash(udBlock, udVariant)

\* the rows of the rollups other than rollup id
otherRollups(rs, id) == {x \in rs : x.id # id}

\* no two settled rollups have the same rollupId or the same rollup hash
settledUnique(rs) ==
  \A x, y \in settled(rs) : (x.id = y.id \/ x.rollupProof = y.rollupProof) => x = y

\* C30: for every block confirmOrAddRollupToDb makes one of the two calls,
\* confirmMined or addRollup, and which one is decided by the lookup of a
\* rollup proof by the rollup hash of the block alone, whatever rollup row
\* has the rollupId: confirmMined when a proof was found (the proofs stay as
\* they are, no row is added, the row of the rollupId is marked mined),
\* addRollup when none was (the proof is added and the row of the rollupId
\* is the block's, mined); and at all times no two settled rollups share a
\* rollupId or a rollup hash
C30_ConfirmOrAdd ==
  [][/\ udStep("defi", "write") => udFound' = (udHash \in rollupProofs)
     /\ udStep("write", "push")
          => /\ otherRollups(rollups', udBlock) = otherRollups(rollups, udBlock)
             /\ IF udFound
                THEN /\ rollupProofs' = rollupProofs
                     /\ {x.id : x \in rollups'} = {x.id : x \in rollups}
                     /\ \A x \in getRollup(rollups', udBlock) :
                          /\ x.mined /\ x.ethTxHash = udHash
                          /\ \E o \in getRollup(rollups, udBlock) :
                               o.rollupProof = x.rollupProof
                ELSE /\ rollupProofs' = rollupProofs \cup {udHash}
                     /\ getRollup(rollups', udBlock)
                          = {[id |-> udBlock, rollupProof |-> udHash, mined |-> TRUE,
                              ethTxHash |-> udHash]}
     /\ settledUnique(rollups')]_vars

\* a competitor's rollup has been added over the unsettled row our pipeline
\* had stored for the same rollupId
C30_Witness ==
  /\ udPc = "push" /\ ~udFound /\ udVariant \in TheirVariants
  /\ rollupHash(udBlock, "a") \in rollupProofs
  /\ getRollup(rollups, udBlock)
       = {[id |-> udBlock, rollupProof |-> udHash, mined |-> TRUE, ethTxHash |-> udHash]}
(***************************************************************************)
(* Every block once and in order, across start() and the queue.            *)
(***************************************************************************)
\* a call of updateDbs begins, from the sync loop or from handleBlock
udBegins == udPc = "idle" /\ udPc' = "roots"

\* a block handed to start() or to handleBlock is lost: the call has
\* thrown while the server was not being stopped
blockLost == stopPc = "idle" /\ (hbPc = "failed" \/ startPc = "failed")

\* C31: every block of the chain is applied by updateDbs once and in the
\* order of the rollupIds: each call of updateDbs, from the sync loop or from
\* handleBlock, is on the block whose rollupId is the next one the store
\* expects; the chain source is started at the next rollupId read after the
\* sync, with nothing enqueued before; the blocks enqueued are consecutive
\* from there; and no call that was handed a block throws it away
C31_EveryBlockOnceInOrder ==
  [][/\ udBegins => udBlock' = getNextRollupId(rollups)
     /\ (startPc = "cache" /\ startPc' = "process")
          => bcOn' /\ bcNext' = getNextRollupId(rollups') /\ enqueued' = << >>
     /\ enqueued' # enqueued /\ restarts' = restarts
          => /\ enqueued' = Append(enqueued, bcNext)
             /\ enqueued # << >> => bcNext = enqueued[Len(enqueued)] + 1
     /\ ~blockLost']_vars

\* C32: every handleBlock call finds a pipeline to stop: the call that
\* begins, for a block queued at any moment from the start of the chain
\* source on, has this.pipeline set, stops it and enters updateDbs, and does
\* not fail for want of a pipeline
C32_PipelineToStop ==
  [][Len(begun') > Len(begun) /\ restarts' = restarts
       => pipeline # None /\ hbFound' # None /\ hbPc' = "updateDbs" /\ udPc' = "roots"]_vars

\* C33: at most one pipeline is running, and a running pipeline is the one
\* this.pipeline refers to: no pipeline is running that the reference has
\* been taken from, so stop(), flushTxs() and the next handleBlock reach
\* every running pipeline
C33_OnePipeline == stray = 0
(***************************************************************************)
(* Progress.  The process is not killed; every step of start(), of the     *)
(* queue consumer, of updateDbs, of a resetPipeline or stop() that has     *)
(* been called, and every delivery of a block event is taken in the end.   *)
(* The calls of the operator, the chain and the pipeline's own steps are   *)
(* under no obligation.                                                    *)
(***************************************************************************)
LiveNext ==
  \/ syncState \/ syncStateFromBlockchain \/ syncStateDeleteUnsettled
  \/ syncStateDeleteOrphaned \/ startBlockchain \/ startProcessQueue
  \/ startNewPipeline
  \/ updateDbsRoots \/ addRollupToWorldState \/ addRollupToWorldStateCommit
  \/ updateDbsProcessDefiProofs \/ confirmOrAddRollupToDb \/ confirmOrAddRollupToDbPush
  \/ blockEvent \/ handleBlock \/ handleBlockStartNewPipeline
  \/ resetPipeline \/ resetPipelineRollback \/ resetPipelineDeleteUnsettled
  \/ resetPipelineDeleteOrphaned \/ resetPipelineDeletePending
  \/ resetPipelineStartNewPipeline
  \/ stop \/ stopWorldStateDb \/ flushTxs
  \/ pipelineCreateRollup \/ pipelinePanic \/ chainPublish

\* the event loop runs every continuation that is ready
Fairness ==
  /\ WF_vars(syncState) /\ WF_vars(syncStateFromBlockchain)
  /\ WF_vars(syncStateDeleteUnsettled) /\ WF_vars(syncStateDeleteOrphaned)
  /\ WF_vars(startBlockchain) /\ WF_vars(startProcessQueue) /\ WF_vars(startNewPipeline)
  /\ WF_vars(updateDbsRoots) /\ WF_vars(addRollupToWorldState)
  /\ WF_vars(addRollupToWorldStateCommit) /\ WF_vars(updateDbsProcessDefiProofs)
  /\ WF_vars(confirmOrAddRollupToDb) /\ WF_vars(confirmOrAddRollupToDbPush)
  /\ WF_vars(blockEvent) /\ WF_vars(handleBlock) /\ WF_vars(handleBlockStartNewPipeline)
  /\ WF_vars(resetPipelineRollback) /\ WF_vars(resetPipelineDeleteUnsettled)
  /\ WF_vars(resetPipelineDeleteOrphaned) /\ WF_vars(resetPipelineDeletePending)
  /\ WF_vars(resetPipelineStartNewPipeline) /\ WF_vars(stopWorldStateDb)

LiveSpec == Init /\ [][LiveNext]_vars /\ Fairness

\* block r has been put on the queue
isEnqueued(r) == \E i \in 1..Len(enqueued) : enqueued[i] = r

\* a handleBlock call with block r has returned without throwing
isHandled(r) ==
  \E i \in 1..Len(begun) :
    begun[i] = r /\ i <= returned /\ (hbPc = "failed" => i < Len(begun))

\* stop() has been called
stopCalled == stopPc # "idle"

\* C34: under fair scheduling every block put on the queue is in the end
\* applied by a handleBlock call that returns, unless stop() is called;
\* every handleBlock call in progress is followed by a state in which it has
\* returned and a pipeline is running again; and a queue that holds blocks
\* is emptied by the consumer in the end
C34_Progress ==
  /\ \A r \in 0..(MaxBlocks - 1) : isEnqueued(r) ~> (isHandled(r) \/ stopCalled)
  /\ (hbPc \in {"updateDbs", "create"})
       ~> ((hbPc = "wait" /\ pipeline \in RunningStates) \/ stopCalled)
  /\ (blockQueue # << >>) ~> (blockQueue = << >>)
(***************************************************************************)
(* The key store of the SDK: addKey, deleteKey and getKey called one after *)
(* the other, each call running to its end.                                *)
(***************************************************************************)
serverVars ==
  <<initFile, theirRollup, accounts, chainVars, treeVars, dbVars, startVars, bcVars, queueVars,
    hbPc, udVars, rpPc, stopPc, pipeVars, blockBufferCache, countVars, returned, histVars>>

\* lines 731-749
addKey ==
  /\ \E name \in KeyNames, value \in KeyValues :
       /\ key' = addKeyOf(key, name, value).table
       /\ keyOp' = [op |-> "addKey", name |-> name, bytes |-> bytesOf(value),
                    threw |-> addKeyOf(key, name, value).threw,
                    got |-> NoName, result |-> KeyUndefined]
  /\ UNCHANGED serverVars

\* lines 719-729
deleteKey ==
  /\ \E name \in KeyNames :
       /\ key' = deleteKeyOf(key, name)
       /\ keyOp' = [op |-> "deleteKey", name |-> name, bytes |-> << >>, threw |-> FALSE,
                    got |-> NoName, result |-> KeyUndefined]
  /\ UNCHANGED serverVars

\* lines 751-775
getKey ==
  /\ \E name \in KeyNames :
       keyOp' = [keyOp EXCEPT !.got = name, !.result = getKeyOf(key, name)]
  /\ UNCHANGED <<key, serverVars>>

KeyStoreNext == addKey \/ deleteKey \/ getKey

KeyStoreSpec == Init /\ [][KeyStoreNext]_vars

\* the records of sub-keys of name in the table
subKeysOf(t, name) ==
  {k \in t : \E i \in 0..MaxBufLen : k.name = toSubKeyName(name, i)}

\* C35: getKey(name) called after addKey(name, value) returns the bytes of
\* value, whether the value is stored whole or split into sub-keys and
\* whatever was stored under the name before; after deleteKey(name),
\* getKey(name) returns undefined and the table holds no sub-key record of
\* name, whatever addKey calls came before
C35_KeyRoundTrip ==
  /\ keyOp.op = "addKey"
       => /\ ~keyOp.threw
          /\ keyOp.got = keyOp.name => keyOp.result = KeyBytes(keyOp.bytes)
  /\ keyOp.op = "deleteKey"
       => /\ keyOp.got = keyOp.name => keyOp.result = KeyUndefined
          /\ subKeysOf(key, keyOp.name) = {}

====
